---- MODULE Spec2Model ----
(***************************************************************************)
(* People Notes: note creation, reference embedding and per-person index   *)
(* ("table of contents") maintenance over a document store (the vault).    *)
(*                                                                         *)
(* Strings are sequences of one-character strings, so that trimming,       *)
(* splitting, substring search and formatting are computed as the code     *)
(* computes them.  A Date is the number of seconds since local midnight of *)
(* 2025-09-11; its calendar fields are derived from it.                    *)
(***************************************************************************)
EXTENDS Integers, Sequences, FiniteSets, TLC

VARIABLES settings, folders, vault, activeFile, now, pc, frame, oplog,
          calls, lastToc, tocHistory, selector

vars == <<settings, folders, vault, activeFile, now, pc, frame, oplog,
          calls, lastToc, tocHistory, selector>>

(***************************************************************************)
(* Bounds of the model.                                                    *)
(***************************************************************************)
\* number of distinct instants the wall clock and explicit timestamps range over
MaxTime == 2
\* number of createNote calls made in one behaviour
MaxCalls == 2
\* length of the names and queries given to the methods that compute on text
MaxLen == 3
\* number of people the directory manager knows
MaxPeople == 11

(***************************************************************************)
(* String primitives (JavaScript String methods used by the code).         *)
(***************************************************************************)
Whitespace == {" ", "\t", "\n", "\r"}

Digits == <<"0", "1", "2", "3", "4", "5", "6", "7", "8", "9">>

IsDigit(c) == \E i \in 1..10 : Digits[i] = c

RECURSIVE TrimStart(_)
TrimStart(s) ==
    IF s = <<>> THEN s
    ELSE IF Head(s) \in Whitespace THEN TrimStart(Tail(s)) ELSE s

RECURSIVE TrimEnd(_)
TrimEnd(s) ==
    IF s = <<>> THEN s
    ELSE IF s[Len(s)] \in Whitespace THEN TrimEnd(SubSeq(s, 1, Len(s) - 1)) ELSE s

\* String.prototype.trim
Trim(s) == TrimEnd(TrimStart(s))

\* needle occurs in hay at (1-based) position i
OccursAt(hay, needle, i) ==
    /\ i >= 1
    /\ i + Len(needle) - 1 <= Len(hay)
    /\ \A k \in 1..Len(needle) : hay[i + k - 1] = needle[k]

\* the positions from position `from` on at which needle occurs in hay
Occurrences(hay, needle, from) ==
    {i \in from..(Len(hay) - Len(needle) + 1) : OccursAt(hay, needle, i)}

\* String.prototype.indexOf(needle, from), 1-based; 0 when absent
IndexFrom(hay, needle, from) ==
    LET hits == Occurrences(hay, needle, from) IN
    IF hits = {} THEN 0 ELSE CHOOSE i \in hits : \A j \in hits : i <= j

IndexOf(hay, needle) == IndexFrom(hay, needle, 1)

\* String.prototype.includes
Includes(hay, needle) == \E i \in 1..(Len(hay) - Len(needle) + 1) : OccursAt(hay, needle, i)

\* String.prototype.lastIndexOf, 1-based; 0 when absent
LastIndexOf(hay, needle) ==
    LET hits == Occurrences(hay, needle, 1) IN
    IF hits = {} THEN 0 ELSE CHOOSE i \in hits : \A j \in hits : i >= j

EndsWith(s, suffix) ==
    Len(s) >= Len(suffix) /\ OccursAt(s, suffix, Len(s) - Len(suffix) + 1)

\* split, scanning for the separator from left to right
RECURSIVE SplitFrom(_, _, _)
SplitFrom(s, sep, from) ==
    LET i == IndexFrom(s, sep, from) IN
    IF i = 0 THEN <<SubSeq(s, from, Len(s))>>
    ELSE <<SubSeq(s, from, i - 1)>> \o SplitFrom(s, sep, i + Len(sep))

\* split at the positions cuts (occurrences of a one-character separator):
\* the pieces between consecutive cuts
SplitAt(s, cuts) ==
    LET n == Cardinality(cuts)
        cut(k) == IF k = 0 THEN 0
                  ELSE IF k > n THEN Len(s) + 1
                  ELSE CHOOSE i \in cuts : Cardinality({j \in cuts : j < i}) = k - 1
    IN  [k \in 1..(n + 1) |-> SubSeq(s, cut(k - 1) + 1, cut(k) - 1)]

\* String.prototype.split with a non-empty string separator
Split(s, sep) ==
    IF Len(sep) = 1 THEN SplitAt(s, {i \in 1..Len(s) : s[i] = sep[1]})
    ELSE SplitFrom(s, sep, 1)

\* Array.prototype.join
RECURSIVE Join(_, _)
Join(parts, sep) ==
    IF parts = <<>> THEN <<>>
    ELSE IF Len(parts) = 1 THEN parts[1]
    ELSE parts[1] \o sep \o Join(Tail(parts), sep)

\* String.prototype.replace with a string pattern: the first occurrence only
ReplaceFirst(s, pat, rep) ==
    LET i == IndexOf(s, pat) IN
    IF i = 0 THEN s
    ELSE SubSeq(s, 1, i - 1) \o rep \o SubSeq(s, i + Len(pat), Len(s))

\* String.prototype.replace(/c/g, rep) for a one-character class
RECURSIVE ReplaceChars(_, _, _)
ReplaceChars(s, class, rep) ==
    IF s = <<>> THEN <<>>
    ELSE (IF Head(s) \in class THEN rep ELSE <<Head(s)>>)
           \o ReplaceChars(Tail(s), class, rep)

\* String.prototype.replace(/\s+/g, ' ')
RECURSIVE CollapseWhitespace(_)
CollapseWhitespace(s) ==
    IF s = <<>> THEN <<>>
    ELSE IF Head(s) \in Whitespace
         THEN <<" ">> \o CollapseWhitespace(TrimStart(s))
         ELSE <<Head(s)>> \o CollapseWhitespace(Tail(s))

RECURSIVE StripLeading(_, _)
StripLeading(s, c) ==
    IF s # <<>> /\ Head(s) = c THEN StripLeading(Tail(s), c) ELSE s

RECURSIVE StripTrailing(_, _)
StripTrailing(s, c) ==
    IF s # <<>> /\ s[Len(s)] = c
    THEN StripTrailing(SubSeq(s, 1, Len(s) - 1), c) ELSE s

\* String(n) for a natural number
RECURSIVE NumberToString(_)
NumberToString(n) ==
    IF n < 10 THEN <<Digits[n + 1]>>
    ELSE NumberToString(n \div 10) \o <<Digits[(n % 10) + 1]>>

\* as if the fields were not padded
PadStart2Skipped(s) == s

\* String.prototype.padStart(2, '0')
PadStart2(s) == IF Len(s) < 2 THEN <<"0">> \o s ELSE s

DigitValue(c) == (CHOOSE i \in 1..10 : Digits[i] = c) - 1

\* Number(s) for a string of decimal digits
RECURSIVE StringToNumber(_)
StringToNumber(s) ==
    IF s = <<>> THEN 0
    ELSE 10 * StringToNumber(SubSeq(s, 1, Len(s) - 1)) + DigitValue(s[Len(s)])

(***************************************************************************)
(* Dates: seconds since local midnight of 2025-09-11.                      *)
(***************************************************************************)
getFullYear(t) == 2025
getMonth(t) == 8
getDate(t) == 11 + (t \div 86400)
getHours(t) == (t % 86400) \div 3600
getMinutes(t) == (t % 3600) \div 60
getSeconds(t) == t % 60

\* new Date(year, monthIndex, day, hour, minute, second), for September 2025
NewDate(year, monthIndex, day, hour, minute, second) ==
    ((((year - 2025) * 12 + (monthIndex - 8)) * 31 + (day - 11)) * 86400)
        + hour * 3600 + minute * 60 + second

\* the instants of the model: 10:18:59, 10:19:00, 10:19:01, ...
Instant(i) == 10 * 3600 + 18 * 60 + 58 + i

Instants == {Instant(i) : i \in 1..MaxTime}

(***************************************************************************)
(* Literals of the code.                                                   *)
(***************************************************************************)
MdSuffix == <<".", "m", "d">>
Slash == <<"/">>
Newline == <<"\n">>
Divider == <<"-", "-", "-">>
EntryPrefix == <<"-", " ">>
NamePlaceholder == <<"{", "n", "a", "m", "e", "}">>
InvalidFilesystemChars == {"/", "\\", ":", "*", "?", "\"", "<", ">", "|"}

(***************************************************************************)
(* Settings (PeopleNotesSettings).                                         *)
(***************************************************************************)
PeopleDirectoryPath == <<"P", "e", "o", "p", "l", "e">>
TableOfContentsFileName == <<"{", "n", "a", "m", "e", "}", " ", "M", "e", "e", "t", "i", "n", "g", " ", "N", "o", "t", "e", "s", ".", "m", "d">>

SettingsSpace ==
    [peopleDirectoryPath : {PeopleDirectoryPath},
     tableOfContentsFileName : {TableOfContentsFileName},
     embeddingFormat : {"wikilink", "markdown-link"},
     noteEmbedType : {"link", "embed"},
     tocContentType : {"link", "embed"},
     timestampFormat : {"iso-with-seconds", "iso-without-seconds"}]

(***************************************************************************)
(* DirectoryManagerImpl: pure parts.                                       *)
(***************************************************************************)
normalizePersonName(name) ==
    StripTrailing(
        StripLeading(
            CollapseWhitespace(ReplaceChars(Trim(name), InvalidFilesystemChars, <<"-">>)),
            "-"),
        "-")

\* TFile.name: the last segment of the path
FileNameOf(path) == SubSeq(path, LastIndexOf(path, Slash) + 1, Len(path))

\* TFile.parent.path
ParentOf(path) == SubSeq(path, 1, LastIndexOf(path, Slash) - 1)

\* TFile.extension: the text after the last dot of the name
ExtensionOf(path) ==
    LET name == FileNameOf(path)
        i == LastIndexOf(name, <<".">>)
    IN  IF i = 0 THEN <<>> ELSE SubSeq(name, i + 1, Len(name))

\* \d{4}-\d{2}-\d{2}--\d{2}-\d{2}-\d{2}
IsTimestampText(s) ==
    /\ Len(s) = 20
    /\ \A i \in 1..20 :
          IF i \in {5, 8, 11, 12, 15, 18} THEN s[i] = "-" ELSE IsDigit(s[i])

\* file.name.match(/(\d{4}-\d{2}-\d{2}--\d{2}-\d{2}-\d{2})\.md$/): the capture,
\* or <<>> when the name does not match
timestampRegex(name) ==
    IF /\ Len(name) >= 23
       /\ EndsWith(name, MdSuffix)
       /\ IsTimestampText(SubSeq(name, Len(name) - 22, Len(name) - 3))
    THEN SubSeq(name, Len(name) - 22, Len(name) - 3)
    ELSE <<>>

parseTimestamp(timestampStr, current) ==
    LET parts == Split(timestampStr, <<"-", "-">>) IN
    IF Len(parts) # 2 THEN current
    ELSE LET dateComponents == Split(parts[1], <<"-">>)
             timeComponents == Split(parts[2], <<"-">>)
         IN  IF Len(dateComponents) # 3 \/ Len(timeComponents) # 3 THEN current
             ELSE NewDate(StringToNumber(dateComponents[1]),
                          StringToNumber(dateComponents[2]) - 1,
                          StringToNumber(dateComponents[3]),
                          StringToNumber(timeComponents[1]),
                          StringToNumber(timeComponents[2]),
                          StringToNumber(timeComponents[3]))

\* a NoteInfo (the TFile back-reference is the file at filePath)
NoteInfo(personName, fileName, filePath, timestamp) ==
    [personName |-> personName, fileName |-> fileName,
     filePath |-> filePath, timestamp |-> timestamp]

parseNoteInfo(file, personName, current) ==
    LET name == FileNameOf(file.path)
        timestampStr == timestampRegex(name)
    IN  IF timestampStr = <<>>
        THEN NoteInfo(personName, name, file.path, file.mtime)
        ELSE NoteInfo(personName, name, file.path, parseTimestamp(timestampStr, current))

(***************************************************************************)
(* PeopleNotesServiceImpl: pure parts.                                     *)
(***************************************************************************)
formatTimestamp(date, s) ==
    LET year == NumberToString(getFullYear(date))
        month == PadStart2(NumberToString(getMonth(date) + 1))
        day == PadStart2(NumberToString(getDate(date)))
        hour == PadStart2(NumberToString(getHours(date)))
        minute == PadStart2(NumberToString(getMinutes(date)))
        second == PadStart2(NumberToString(getSeconds(date)))
        ymdhm == year \o <<"-">> \o month \o <<"-">> \o day \o <<"-", "-">>
                   \o hour \o <<"-">> \o minute
    IN  IF s.timestampFormat = "iso-without-seconds" THEN ymdhm
        ELSE ymdhm \o <<"-">> \o second

generateFileName(personName, timestamp, s) ==
    normalizePersonName(personName) \o <<" ">> \o formatTimestamp(timestamp, s) \o MdSuffix

\* the file path createNote computes
NoteFilePath(personName, timestamp, s) ==
    s.peopleDirectoryPath \o Slash \o normalizePersonName(personName)
        \o Slash \o generateFileName(personName, timestamp, s)

\* the body of a new note; the locale rendering of the instant is written
\* in the file-name form
generateNoteContent(personName, timestamp, s) ==
    <<"*", "C", "r", "e", "a", "t", "e", "d", ":", " ">> \o formatTimestamp(timestamp, s) \o <<"*", "\n", "\n", "-", " ">>

(***************************************************************************)
(* EmbeddingServiceImpl: pure parts.                                       *)
(***************************************************************************)
\* as if the embed prefix were written for every format
formatNoteLinkPrefixed(note, format, embedType) ==
    LET baseName == IF EndsWith(note.fileName, MdSuffix)
                    THEN SubSeq(note.fileName, 1, Len(note.fileName) - 3)
                    ELSE note.fileName
        embedPrefix == IF embedType = "embed" THEN <<"!">> ELSE <<>>
    IN  IF format = "markdown-link"
        THEN embedPrefix \o <<"[">> \o baseName \o <<"]", "(">>
               \o ReplaceChars(note.filePath, {" "}, <<"%", "2", "0">>) \o <<")">>
        ELSE embedPrefix \o <<"[", "[">> \o baseName \o <<"]", "]">>

formatNoteLink(note, format, embedType) ==
    LET baseName == IF EndsWith(note.fileName, MdSuffix)
                    THEN SubSeq(note.fileName, 1, Len(note.fileName) - 3)
                    ELSE note.fileName
        embedPrefix == IF embedType = "embed" /\ format = "wikilink"
                       THEN <<"!">> ELSE <<>>
    IN  IF format = "markdown-link"
        THEN <<"[">> \o baseName \o <<"]", "(">>
               \o ReplaceChars(note.filePath, {" "}, <<"%", "2", "0">>) \o <<")">>
        ELSE embedPrefix \o <<"[", "[">> \o baseName \o <<"]", "]">>

createInitialTocContent(personName) ==
    <<"#", " ">> \o personName \o <<" ", "M", "e", "e", "t", "i", "n", "g", " ", "N", "o", "t", "e", "s">> \o Newline \o Newline
        \o <<"T", "h", "i", "s", " ", "f", "i", "l", "e", " ", "t", "r", "a", "c", "k", "s", " ", "a", "l", "l", " ", "n", "o", "t", "e", "s", " ", "f", "o", "r", " ">> \o personName
        \o <<",", " ", "a", "u", "t", "o", "m", "a", "t", "i", "c", "a", "l", "l", "y", " ", "u", "p", "d", "a", "t", "e", "d", " ", "w", "h", "e", "n", " ", "n", "e", "w", " ", "n", "o", "t", "e", "s", " ", "a", "r", "e", " ", "c", "r", "e", "a", "t", "e", "d", ".">>
        \o Newline \o Newline \o Divider \o Newline \o Newline

\* the for loop: index of the first line that is the divider; 0 when none is
RECURSIVE DividerFrom(_, _)
DividerFrom(lines, i) ==
    IF i > Len(lines) THEN 0
    ELSE IF Trim(lines[i]) = Divider THEN i
    ELSE DividerFrom(lines, i + 1)

FirstDivider(lines) == DividerFrom(lines, 1)

\* the while loop: skip the empty lines from (0-based) position k on
RECURSIVE SkipEmptyLines(_, _)
SkipEmptyLines(lines, k) ==
    IF k < Len(lines) /\ Trim(lines[k + 1]) = <<>>
    THEN SkipEmptyLines(lines, k + 1) ELSE k


\* as if the entry replaced the line at the insert position
SpliceOver(lines, insertIndex, noteEntry) ==
    SubSeq(lines, 1, insertIndex) \o <<noteEntry>>
        \o SubSeq(lines, insertIndex + 2, Len(lines))

\* lines.splice(insertIndex, 0, noteEntry), insertIndex 0-based
Splice(lines, insertIndex, noteEntry) ==
    SubSeq(lines, 1, insertIndex) \o <<noteEntry>>
        \o SubSeq(lines, insertIndex + 1, Len(lines))


\* as if the entry were always appended at the end of the document
InsertIndexAtEnd(lines) == Len(lines)

\* the (0-based) position at which updatePersonTocWithNote inserts
InsertIndex(lines) ==
    LET d == FirstDivider(lines) IN
    IF d = 0 THEN Len(lines) ELSE SkipEmptyLines(lines, d)


\* as if the entry were inserted without looking for the reference in the text
updatePersonTocWithNoteUnchecked(tocContent, note, s) ==
    LET noteLink == formatNoteLink(note, s.embeddingFormat, s.tocContentType)
        noteEntry == EntryPrefix \o noteLink
        lines == Split(tocContent, Newline)
    IN  Join(Splice(lines, InsertIndex(lines), noteEntry), Newline)

updatePersonTocWithNote(tocContent, note, s) ==
    LET noteLink == formatNoteLink(note, s.embeddingFormat, s.tocContentType)
        noteEntry == EntryPrefix \o noteLink
        lines == Split(tocContent, Newline)
    IN  IF Includes(tocContent, noteLink) THEN tocContent
        ELSE Join(Splice(lines, InsertIndex(lines), noteEntry), Newline)

generateTocFileName(personName, s) ==
    ReplaceFirst(s.tableOfContentsFileName, NamePlaceholder, personName)


\* as if the list were gone through from its last note to its first
RECURSIVE AddAllNotesBackwards(_, _, _)
AddAllNotesBackwards(content, notes, s) ==
    IF notes = <<>> THEN content
    ELSE updatePersonTocWithNote(AddAllNotesBackwards(content, Tail(notes), s),
                                 Head(notes), s)

\* the for loop of regenerateTableOfContents
RECURSIVE AddAllNotes(_, _, _)
AddAllNotes(content, notes, s) ==
    IF notes = <<>> THEN content
    ELSE AddAllNotes(updatePersonTocWithNote(content, Head(notes), s), Tail(notes), s)

(***************************************************************************)
(* The document store (Vault) and the workspace.                           *)
(*   folders    : the paths of the existing folders                        *)
(*   vault      : the existing files, in creation order, each with its     *)
(*                path, content and modification time                      *)
(*   activeFile : the path of the active document, or NoFile               *)
(*   now        : the wall clock                                           *)
(***************************************************************************)
NoFile == <<>>
NoNote == [personName |-> <<>>, fileName |-> <<>>, filePath |-> <<>>, timestamp |-> 0]

FileIndex(files, path) ==
    IF \E i \in 1..Len(files) : files[i].path = path
    THEN CHOOSE i \in 1..Len(files) : files[i].path = path
    ELSE 0

\* vault.getAbstractFileByPath(path) finds a file
FileExists(files, path) == FileIndex(files, path) # 0

\* vault.read
ReadFile(files, path) == files[FileIndex(files, path)].content

\* vault.create
CreateFile(files, path, content, mtime) ==
    Append(files, [path |-> path, content |-> content, mtime |-> mtime])

\* vault.modify
ModifyFile(files, path, content, mtime) ==
    [files EXCEPT ![FileIndex(files, path)] =
        [path |-> path, content |-> content, mtime |-> mtime]]

\* folder.children restricted to files, in the order of the store
RECURSIVE ChildFiles(_, _)
ChildFiles(files, folderPath) ==
    IF files = <<>> THEN <<>>
    ELSE (IF ParentOf(Head(files).path) = folderPath THEN <<Head(files)>> ELSE <<>>)
           \o ChildFiles(Tail(files), folderPath)

(***************************************************************************)
(* DirectoryManagerImpl: enumeration of a person's notes.                  *)
(***************************************************************************)
\* insertion of one note into a list sorted by (b.timestamp - a.timestamp):
\* a stable sort, newest first
RECURSIVE InsertSorted(_, _)
InsertSorted(sorted, note) ==
    IF sorted = <<>> THEN <<note>>
    ELSE IF note.timestamp > Head(sorted).timestamp
         THEN <<note>> \o sorted
         ELSE <<Head(sorted)>> \o InsertSorted(Tail(sorted), note)

RECURSIVE SortNewestFirst(_)
SortNewestFirst(notes) ==
    IF notes = <<>> THEN <<>>
    ELSE InsertSorted(SortNewestFirst(SubSeq(notes, 1, Len(notes) - 1)),
                      notes[Len(notes)])

RECURSIVE ParseChildren(_, _, _)
ParseChildren(children, personName, current) ==
    IF children = <<>> THEN <<>>
    ELSE (IF ExtensionOf(Head(children).path) = <<"m", "d">>
          THEN <<parseNoteInfo(Head(children), personName, current)>>
          ELSE <<>>)
           \o ParseChildren(Tail(children), personName, current)

getNotesInFolder(files, folderPath, personName, current) ==
    SortNewestFirst(ParseChildren(ChildFiles(files, folderPath), personName, current))

PersonPath(personName, s) ==
    s.peopleDirectoryPath \o Slash \o normalizePersonName(personName)

NoPerson == [name |-> <<>>, normalizedName |-> <<>>, directoryPath |-> <<>>,
             notes |-> <<>>, found |-> FALSE]

\* getPersonInfo: found = FALSE stands for null
getPersonInfo(dirs, files, personName, s, current) ==
    IF PersonPath(personName, s) \notin dirs THEN NoPerson
    ELSE [name |-> personName,
          normalizedName |-> normalizePersonName(personName),
          directoryPath |-> PersonPath(personName, s),
          notes |-> getNotesInFolder(files, PersonPath(personName, s), personName, current),
          found |-> TRUE]

\* getAllPeople: one PersonInfo per folder that is a child of the people folder
getAllPeople(dirs, files, s, current) ==
    IF s.peopleDirectoryPath \notin dirs THEN {}
    ELSE {[name |-> FileNameOf(d),
           normalizedName |-> FileNameOf(d),
           directoryPath |-> d,
           notes |-> getNotesInFolder(files, d, FileNameOf(d), current),
           found |-> TRUE] :
            d \in {x \in dirs : Includes(x, Slash) /\ ParentOf(x) = s.peopleDirectoryPath}}

(***************************************************************************)
(* Inputs of the model.                                                    *)
(***************************************************************************)
Procs == {1, 2}

NameAB == <<"A", " ", "B">>
NameBlank == <<" ", "\t">>
NameEmpty == <<>>
PersonNames == {NameAB, NameBlank, NameEmpty}

TodayPath == <<"T", "o", "d", "a", "y", ".", "m", "d">>
ExistingContent == <<"E", "x", "i", "s", "t", "i", "n", "g", " ", "c", "o", "n", "t", "e", "n", "t">>

\* the notes createNote can produce for the valid names of the model
NoteOf(personName, timestamp, s) ==
    NoteInfo(personName, generateFileName(personName, timestamp, s),
             NoteFilePath(personName, timestamp, s), timestamp)

(***************************************************************************)
(* Control state of one invocation: the position (pc), the locals (f) and  *)
(* the log of what the invocation has done so far (log).                   *)
(***************************************************************************)
NoResult == [kind |-> "none"]

\* what getAbstractFileByPath and read give for a path: absent, or the content
NoDoc == [exists |-> FALSE, content |-> <<>>]

DocAt(files, path) ==
    IF FileExists(files, path)
    THEN [exists |-> TRUE, content |-> ReadFile(files, path)]
    ELSE NoDoc

IdleFrame ==
    [op |-> "none", personName |-> <<>>, embedOpt |-> FALSE, tocOpt |-> FALSE,
     note |-> NoNote, embedded |-> FALSE, tocUpdated |-> FALSE,
     tocPath |-> <<>>, tocContent |-> <<>>, newContent |-> <<>>,
     repeat |-> FALSE, supplied |-> FALSE, notes |-> <<>>, before |-> NoDoc,
     overlapped |-> FALSE, query |-> <<>>, people |-> <<>>, result |-> NoResult]

Emit(c, event) == [c EXCEPT !.log = Append(@, event)]

Goto(c, label) == [c EXCEPT !.pc = label]

\* return { success: true, note: noteInfo, embedded, tocUpdated }; the locals
\* that held document text go out of scope
ReturnCreated(c) ==
    [pc |-> "done",
     f |-> [c.f EXCEPT !.tocContent = <<>>, !.newContent = <<>>, !.result =
              [kind |-> "createNote", success |-> TRUE, note |-> c.f.note,
               error |-> "", embedded |-> c.f.embedded,
               tocUpdated |-> c.f.tocUpdated]],
     log |-> Append(c.log, "return")]

\* return { success: false, error, embedded: false, tocUpdated: false }
ReturnFailure(c, error) ==
    [pc |-> "done",
     f |-> [c.f EXCEPT !.tocContent = <<>>, !.newContent = <<>>, !.result =
              [kind |-> "createNote", success |-> FALSE, note |-> NoNote,
               error |-> error, embedded |-> FALSE, tocUpdated |-> FALSE]],
     log |-> Append(c.log, "return")]

\* return of a call made directly on the EmbeddingService
ReturnBoolean(c, ok) ==
    [pc |-> "done",
     f |-> [c.f EXCEPT !.tocContent = <<>>, !.newContent = <<>>,
                       !.result = [kind |-> "boolean", ok |-> ok]],
     log |-> Append(c.log, "return")]

\* return of a synchronous method with its value
ReturnValue(c, value) ==
    [pc |-> "done",
     f |-> [c.f EXCEPT !.result = [kind |-> "value", value |-> value]],
     log |-> Append(c.log, "return")]

\* updateTableOfContents returns ok: back in createNote, or to the direct caller
EndToc(c, ok) ==
    IF c.f.op = "createNote"
    THEN ReturnCreated(Emit([c EXCEPT !.f.tocUpdated = ok], "toc:end"))
    ELSE ReturnBoolean(Emit(c, "toc:end"), ok)

\* updateTableOfContents up to its first await
BeginToc(c, files, s) ==
    LET note == c.f.note
        personDirectory == SubSeq(note.filePath, 1, LastIndexOf(note.filePath, Slash) - 1)
        tocPath == personDirectory \o Slash \o generateTocFileName(note.personName, s)
        c1 == Emit([c EXCEPT !.f.tocPath = tocPath], "toc:begin")
    IN  IF ~FileExists(files, tocPath)
        THEN Goto([c1 EXCEPT !.f.tocContent = createInitialTocContent(note.personName)],
                  "tocCreate")
        ELSE Goto(c1, "tocRead")


\* as if the entry were added to a fresh header instead of the content found
AfterTocContentFresh(c, s) ==
    LET updatedContent ==
            updatePersonTocWithNote(createInitialTocContent(c.f.note.personName),
                                    c.f.note, s)
    IN  IF updatedContent # c.f.tocContent
        THEN Goto([c EXCEPT !.f.newContent = updatedContent], "tocModify")
        ELSE EndToc(c, TRUE)

\* updateTableOfContents once tocContent is known, up to its next await
AfterTocContent(c, s) ==
    LET updatedContent == updatePersonTocWithNote(c.f.tocContent, c.f.note, s) IN
    IF updatedContent # c.f.tocContent
    THEN Goto([c EXCEPT !.f.newContent = updatedContent], "tocModify")
    ELSE EndToc(c, TRUE)


\* as if the index update were attempted only after an embed that succeeded
TocPhaseAfterEmbed(c, files, s) ==
    IF c.f.tocOpt /\ (c.f.embedded \/ ~c.f.embedOpt)
    THEN BeginToc(c, files, s) ELSE ReturnCreated(c)

\* createNote from "if (options.updateTableOfContents !== false)" on
TocPhase(c, files, s) ==
    IF c.f.tocOpt THEN BeginToc(c, files, s) ELSE ReturnCreated(c)


\* as if an embed that failed made createNote fail
EndEmbedPropagates(c, ok, files, s) ==
    IF c.f.op # "createNote" THEN ReturnBoolean(Emit(c, "embed:end"), ok)
    ELSE IF ok THEN TocPhase(Emit([c EXCEPT !.f.embedded = ok], "embed:end"), files, s)
    ELSE ReturnFailure(Emit(c, "embed:end"), "embed failed")

\* embedInCurrentNote returns ok
EndEmbed(c, ok, files, s) ==
    IF c.f.op = "createNote"
    THEN TocPhase(Emit([c EXCEPT !.f.embedded = ok], "embed:end"), files, s)
    ELSE ReturnBoolean(Emit(c, "embed:end"), ok)


\* as if a call without active document went on to read
BeginEmbedUnguarded(c, files, active, s) ==
    IF active = NoFile THEN EndEmbed(Emit(c, "embed:begin"), TRUE, files, s)
    ELSE Goto(Emit(c, "embed:begin"), "embedRead")

\* embedInCurrentNote up to its first await
BeginEmbed(c, files, active, s) ==
    IF active = NoFile THEN EndEmbed(Emit(c, "embed:begin"), FALSE, files, s)
    ELSE Goto(Emit(c, "embed:begin"), "embedRead")

\* createNote after "await this.vault.create(filePath, noteContent)"
AfterNoteCreated(c, files, active, s) ==
    IF c.f.embedOpt THEN BeginEmbed(c, files, active, s) ELSE TocPhase(c, files, s)

\* ensurePersonDirectory after "await this.ensurePeopleDirectory()"
EnsurePerson(c, dirs, s) ==
    IF PersonPath(c.f.personName, s) \in dirs
    THEN Goto(Emit(c, "ensured:person"), "createFile")
    ELSE Goto(c, "createPersonFolder")


\* as if the note file were created without ensuring the directories
EnsurePeopleSkipped(c, dirs, s) == Goto(c, "createFile")

\* ensurePersonDirectory up to its first await
EnsurePeople(c, dirs, s) ==
    IF s.peopleDirectoryPath \in dirs
    THEN EnsurePerson(Emit(c, "ensured:people"), dirs, s)
    ELSE Goto(c, "createPeopleFolder")


\* as if the person name were tested without trimming
BeginCreateNoteUntrimmed(c, dirs, s) ==
    IF c.f.personName = <<>>
    THEN ReturnFailure(c, "Person name cannot be empty")
    ELSE EnsurePeople(c, dirs, s)

\* createNote up to its first await
BeginCreateNote(c, dirs, s) ==
    IF Trim(c.f.personName) = <<>>
    THEN ReturnFailure(c, "Person name cannot be empty")
    ELSE EnsurePeople(c, dirs, s)

(***************************************************************************)
(* State of the invocations and history of the index documents.            *)
(*   pc, frame, oplog : control state of each logical flow                 *)
(*   calls            : number of createNote calls started                  *)
(*   lastToc          : the last completed direct updateTableOfContents    *)
(*                      call, while nothing else has touched the store     *)
(*   frame[p].before  : the index document as it was when the call began  *)
(*   frame[p].overlapped : another invocation was in progress when this   *)
(*                      one began                                          *)
(*   tocHistory       : for each index document that updateTableOfContents *)
(*                      created and that only it has written since: the    *)
(*                      entry lines it inserted, in the order of insertion *)
(***************************************************************************)
Ctl(p) == [pc |-> pc[p], f |-> frame[p], log |-> oplog[p]]

NoLast == [note |-> NoNote, ok |-> FALSE]

Set(p, c) ==
    /\ pc' = [pc EXCEPT ![p] = c.pc]
    /\ frame' = [frame EXCEPT ![p] = c.f]
    /\ oplog' = [oplog EXCEPT ![p] = c.log]
    /\ lastToc' = IF c.pc = "done" /\ c.f.op = "updateTableOfContents"
                  THEN [note |-> c.f.note, ok |-> c.f.result.ok]
                  ELSE IF c.f.op = "updateTableOfContents" THEN lastToc ELSE NoLast

Free(p) == pc[p] \in {"idle", "done"}

Undefined == 0 - 1

StoreError == "store error"

PersonAB == PeopleDirectoryPath \o Slash \o NameAB

TocEntry(note, s) ==
    EntryPrefix \o formatNoteLink(note, s.embeddingFormat, s.tocContentType)

(***************************************************************************)
(* PeopleNotesServiceImpl.createNote.                                      *)
(***************************************************************************)
StartCreateNote(p, personName, timestamp, embedOpt, tocOpt) ==
    /\ Free(p)
    /\ \A q \in Procs : q < p => pc[q] # "idle"
    /\ calls < MaxCalls
    /\ calls' = calls + 1
    /\ LET ts == IF timestamp = Undefined THEN now ELSE timestamp
           f0 == [IdleFrame EXCEPT !.op = "createNote", !.personName = personName,
                                   !.embedOpt = embedOpt, !.tocOpt = tocOpt,
                                   !.overlapped = (\E q \in Procs : ~Free(q)),
                                   !.note = NoteOf(personName, ts, settings)]
       IN  Set(p, BeginCreateNote([pc |-> "idle", f |-> f0, log |-> <<>>],
                                  folders, settings))
    /\ UNCHANGED <<selector, settings, folders, vault, activeFile, now, tocHistory>>

\* await this.vault.createFolder(this.peopleDirectoryPath)
CreatePeopleFolder(p) ==
    /\ pc[p] = "createPeopleFolder"
    /\ \E fault \in BOOLEAN :
        LET c == Emit(Ctl(p), "vault.createFolder(people)")
            created == folders \cup {settings.peopleDirectoryPath}
        IN  IF fault \/ settings.peopleDirectoryPath \in folders
            THEN /\ Set(p, ReturnFailure(Emit(c, "threw"), StoreError))
                 /\ folders' = folders
            ELSE /\ Set(p, EnsurePerson(Emit(c, "ensured:people"), created, settings))
                 /\ folders' = created
    /\ UNCHANGED <<selector, settings, vault, activeFile, now, calls, tocHistory>>

\* await this.vault.createFolder(personPath)
CreatePersonFolder(p) ==
    /\ pc[p] = "createPersonFolder"
    /\ \E fault \in BOOLEAN :
        LET c == Emit(Ctl(p), "vault.createFolder(person)")
            personPath == PersonPath(frame[p].personName, settings)
        IN  IF fault \/ personPath \in folders
            THEN /\ Set(p, ReturnFailure(Emit(c, "threw"), StoreError))
                 /\ folders' = folders
            ELSE /\ Set(p, Goto(Emit(c, "ensured:person"), "createFile"))
                 /\ folders' = folders \cup {personPath}
    /\ UNCHANGED <<selector, settings, vault, activeFile, now, calls, tocHistory>>

\* await this.vault.create(filePath, noteContent), then on to the next await
CreateNoteFile(p) ==
    /\ pc[p] = "createFile"
    /\ \E fault \in BOOLEAN :
        LET c == Emit(Ctl(p), "vault.create(note)")
            note == frame[p].note
            created == CreateFile(vault, note.filePath,
                                  generateNoteContent(note.personName, note.timestamp, settings),
                                  now)
        IN  IF fault \/ FileExists(vault, note.filePath)
            THEN /\ Set(p, ReturnFailure(Emit(c, "threw"), StoreError))
                 /\ vault' = vault
            ELSE /\ Set(p, AfterNoteCreated(Emit(c, "noteCreated"), created,
                                            activeFile, settings))
                 /\ vault' = created
    /\ UNCHANGED <<selector, settings, folders, activeFile, now, calls, tocHistory>>

(***************************************************************************)
(* EmbeddingServiceImpl.embedInCurrentNote.                                *)
(***************************************************************************)

\* as if the reference were appended after a single newline
EmbedReadOneNewline(p) ==
    /\ pc[p] = "embedRead"
    /\ \E fault \in BOOLEAN :
        LET c == Emit(Ctl(p), "vault.read(active)")
            noteLink == formatNoteLink(frame[p].note, settings.embeddingFormat,
                                       settings.noteEmbedType)
            newContent == ReadFile(vault, activeFile) \o Newline \o noteLink
        IN  IF fault
            THEN Set(p, EndEmbed(Emit(c, "threw"), FALSE, vault, settings))
            ELSE Set(p, Goto([c EXCEPT !.f.newContent = newContent], "embedModify"))
    /\ UNCHANGED <<selector, settings, folders, vault, activeFile, now, calls, tocHistory>>

\* await this.vault.read(activeFile)
EmbedRead(p) ==
    /\ pc[p] = "embedRead"
    /\ \E fault \in BOOLEAN :
        LET c == Emit(Ctl(p), "vault.read(active)")
            noteLink == formatNoteLink(frame[p].note, settings.embeddingFormat,
                                       settings.noteEmbedType)
            newContent == ReadFile(vault, activeFile) \o Newline \o Newline \o noteLink
        IN  IF fault
            THEN Set(p, EndEmbed(Emit(c, "threw"), FALSE, vault, settings))
            ELSE Set(p, Goto([c EXCEPT !.f.newContent = newContent], "embedModify"))
    /\ UNCHANGED <<selector, settings, folders, vault, activeFile, now, calls, tocHistory>>

\* await this.vault.modify(activeFile, newContent)
EmbedModify(p) ==
    /\ pc[p] = "embedModify"
    /\ \E fault \in BOOLEAN :
        LET c == Emit(Ctl(p), "vault.modify(active)")
            written == ModifyFile(vault, activeFile, frame[p].newContent, now)
        IN  IF fault
            THEN /\ Set(p, EndEmbed(Emit(c, "threw"), FALSE, vault, settings))
                 /\ vault' = vault
            ELSE /\ Set(p, EndEmbed(Emit(c, "active:modified"), TRUE, written, settings))
                 /\ vault' = written
    /\ UNCHANGED <<selector, settings, folders, activeFile, now, calls, tocHistory>>

(***************************************************************************)
(* EmbeddingServiceImpl.updateTableOfContents.                             *)
(***************************************************************************)
StartUpdateTableOfContents(p, note) ==
    /\ Free(p)
    /\ LET f0 == [IdleFrame EXCEPT !.op = "updateTableOfContents",
                                   !.personName = note.personName, !.note = note,
                                   !.repeat = (lastToc = [note |-> note, ok |-> TRUE])]
           c0 == BeginToc([pc |-> "idle", f |-> f0, log |-> <<>>], vault, settings)
       IN  Set(p, [c0 EXCEPT !.f.before = DocAt(vault, c0.f.tocPath)])
    /\ UNCHANGED <<selector, settings, folders, vault, activeFile, now, calls, tocHistory>>

\* tocFile = await this.vault.create(tocPath, tocContent)
TocCreate(p) ==
    /\ pc[p] = "tocCreate"
    /\ \E fault \in BOOLEAN :
        LET c == Emit(Ctl(p), "vault.create(toc)")
            tocPath == frame[p].tocPath
        IN  IF fault \/ FileExists(vault, tocPath)
            THEN /\ Set(p, EndToc(Emit(c, "threw"), FALSE))
                 /\ UNCHANGED <<vault, tocHistory>>
            ELSE /\ Set(p, AfterTocContent(c, settings))
                 /\ vault' = CreateFile(vault, tocPath, frame[p].tocContent, now)
                 /\ tocHistory' = tocHistory \cup {[path |-> tocPath, entries |-> <<>>]}
    /\ UNCHANGED <<selector, settings, folders, activeFile, now, calls>>

\* tocContent = await this.vault.read(tocFile)
TocRead(p) ==
    /\ pc[p] = "tocRead"
    /\ \E fault \in BOOLEAN :
        LET c == Emit(Ctl(p), "vault.read(toc)")
            tocContent == ReadFile(vault, frame[p].tocPath)
        IN  IF fault
            THEN Set(p, EndToc(Emit(c, "threw"), FALSE))
            ELSE Set(p, AfterTocContent([c EXCEPT !.f.tocContent = tocContent], settings))
    /\ UNCHANGED <<selector, settings, folders, vault, activeFile, now, calls, tocHistory>>

\* await this.vault.modify(tocFile, updatedContent)
TocModify(p) ==
    /\ pc[p] = "tocModify"
    /\ \E fault \in BOOLEAN :
        LET c == Emit(Ctl(p), "vault.modify(toc)")
            tocPath == frame[p].tocPath
        IN  IF fault
            THEN /\ Set(p, EndToc(Emit(c, "threw"), FALSE))
                 /\ UNCHANGED <<vault, tocHistory>>
            ELSE /\ Set(p, EndToc(c, TRUE))
                 /\ vault' = ModifyFile(vault, tocPath, frame[p].newContent, now)
                 /\ tocHistory' =
                      {IF h.path = tocPath
                       THEN [h EXCEPT !.entries = Append(@, TocEntry(frame[p].note, settings))]
                       ELSE h : h \in tocHistory}
    /\ UNCHANGED <<selector, settings, folders, activeFile, now, calls>>

(***************************************************************************)
(* EmbeddingServiceImpl.regenerateTableOfContents.  personInfo is what     *)
(* directoryManager.getPersonInfo(personName) resolved to; supplied tells  *)
(* that the directory manager is one injected by the caller.               *)
(***************************************************************************)
StartRegenerate(p, personName, personInfo, supplied) ==
    /\ Free(p)
    /\ LET f0 == [IdleFrame EXCEPT !.op = "regenerateTableOfContents",
                                   !.personName = personName,
                                   !.supplied = supplied,
                                   !.notes = personInfo.notes]
           c0 == [pc |-> "idle", f |-> f0, log |-> <<>>]
           tocPath == personInfo.directoryPath \o Slash
                        \o generateTocFileName(personName, settings)
           updatedContent == AddAllNotes(createInitialTocContent(personName),
                                         personInfo.notes, settings)
           c1 == [c0 EXCEPT !.f.tocPath = tocPath, !.f.newContent = updatedContent,
                            !.f.before = DocAt(vault, tocPath)]
       IN  IF ~personInfo.found THEN Set(p, ReturnBoolean(c0, FALSE))
           ELSE IF ~FileExists(vault, tocPath) THEN Set(p, Goto(c1, "regenCreate"))
           ELSE Set(p, Goto(c1, "regenModify"))
    /\ UNCHANGED <<selector, settings, folders, vault, activeFile, now, calls, tocHistory>>

\* tocFile = await this.vault.create(tocPath, updatedContent)
RegenCreate(p) ==
    /\ pc[p] = "regenCreate"
    /\ \E fault \in BOOLEAN :
        LET c == Emit(Ctl(p), "vault.create(toc)")
            tocPath == frame[p].tocPath
        IN  IF fault \/ FileExists(vault, tocPath)
            THEN /\ Set(p, ReturnBoolean(Emit(c, "threw"), FALSE))
                 /\ UNCHANGED <<vault, tocHistory>>
            ELSE /\ Set(p, ReturnBoolean(c, TRUE))
                 /\ vault' = CreateFile(vault, tocPath, frame[p].newContent, now)
                 /\ tocHistory' = {h \in tocHistory : h.path # tocPath}
    /\ UNCHANGED <<selector, settings, folders, activeFile, now, calls>>

\* await this.vault.modify(tocFile, updatedContent)
RegenModify(p) ==
    /\ pc[p] = "regenModify"
    /\ \E fault \in BOOLEAN :
        LET c == Emit(Ctl(p), "vault.modify(toc)")
            tocPath == frame[p].tocPath
        IN  IF fault
            THEN /\ Set(p, ReturnBoolean(Emit(c, "threw"), FALSE))
                 /\ UNCHANGED <<vault, tocHistory>>
            ELSE /\ Set(p, ReturnBoolean(c, TRUE))
                 /\ vault' = ModifyFile(vault, tocPath, frame[p].newContent, now)
                 /\ tocHistory' = {h \in tocHistory : h.path # tocPath}
    /\ UNCHANGED <<selector, settings, folders, activeFile, now, calls>>

(***************************************************************************)
(* The environment: the clock, notes already in a person's folder, and the *)
(* user writing an index document by hand.                                 *)
(***************************************************************************)
Tick ==
    /\ now < Instant(MaxTime)
    /\ now' = now + 1
    /\ UNCHANGED <<selector, settings, folders, vault, activeFile, pc, frame, oplog,
                   calls, lastToc, tocHistory>>

\* a note file of the person appears in the person's folder
PutNoteFile(personName, timestamp) ==
    LET path == NoteFilePath(personName, timestamp, settings) IN
    /\ PersonPath(personName, settings) \in folders
    /\ ~FileExists(vault, path)
    /\ vault' = CreateFile(vault, path,
                           generateNoteContent(personName, timestamp, settings), now)
    /\ UNCHANGED <<selector, settings, folders, activeFile, now, pc, frame, oplog,
                   calls, lastToc, tocHistory>>

TocPathOf(personName, s) ==
    PersonPath(personName, s) \o Slash \o generateTocFileName(personName, s)

\* the reference of the person's first note, as the index writes it
FirstRef(s) ==
    formatNoteLink(NoteOf(NameAB, Instant(1), s), s.embeddingFormat, s.tocContentType)

\* index documents as the user may have written or edited them: no divider;
\* an own header with an old entry; text between divider and entries; two
\* dividers; CRLF line ends; the first note mentioned in running text; the
\* first note listed, followed by a remark
UserDocs(s) ==
    {<<"h", "i">>,
     <<"#", " ", "N", "o", "t", "e", "s", " ", "f", "o", "r", " ", "A", " ", "B", "\n", "\n", "-", "-", "-", "\n", "\n", "-", " ", "[", "[", "O", "l", "d", " ", "N", "o", "t", "e", "]", "]">>,
     <<"#", " ", "N", "\n", "-", "-", "-", "\n", "m", "y", " ", "r", "e", "m", "a", "r", "k", "\n", "-", " ", "[", "[", "O", "l", "d", " ", "N", "o", "t", "e", "]", "]">>,
     <<"-", "-", "-", "\n", "t", "i", "t", "l", "e", ":", " ", "x", "\n", "-", "-", "-", "\n">>,
     <<"#", " ", "N", "\r", "\n", "\r", "\n", " ", "-", "-", "-", "\t", "\r", "\n", "\r", "\n", "-", " ", "[", "[", "O", "l", "d", " ", "N", "o", "t", "e", "]", "]", "\r", "\n">>,
     <<"#", " ", "N", "\n", "\n", "s", "e", "e", " ">> \o FirstRef(s) \o <<" ", "f", "i", "r", "s", "t", "\n", "\n", "-", "-", "-", "\n">>,
     <<"#", " ", "N", "\n", "-", "-", "-", "\n", "-", " ">> \o FirstRef(s) \o <<"\n", "m", "y", " ", "r", "e", "m", "a", "r", "k">>}

\* the user writes an index document that does not exist yet
UserCreate(path, content) ==
    /\ \A p \in Procs : Free(p)
    /\ ~FileExists(vault, path)
    /\ vault' = CreateFile(vault, path, content, now)
    /\ lastToc' = NoLast
    /\ UNCHANGED <<selector, settings, folders, activeFile, now, pc, frame, oplog, calls,
                   tocHistory>>

(***************************************************************************)
(* Spec: overlapping createNote invocations on one store.                  *)
(***************************************************************************)
TodayFile == [path |-> TodayPath, content |-> ExistingContent, mtime |-> Instant(1)]

\* PersonSelectorModal after construction: lastQuery = '', cachedResults = [].
\* cachedFor and returnedFor hold the query (at most one) whose computation
\* produced cachedResults and the list getItems returned last; pending holds
\* the queries of the searches in flight.
ClosedSelector ==
    [inputValue |-> <<>>, lastQuery |-> <<>>,
     cachedResults |-> <<>>, cachedFor |-> <<>>,
     pending |-> <<>>,
     returned |-> <<>>, returnedFor |-> <<>>]

InitControl ==
    /\ pc = [p \in Procs |-> "idle"]
    /\ frame = [p \in Procs |-> IdleFrame]
    /\ oplog = [p \in Procs |-> <<>>]
    /\ calls = 0
    /\ lastToc = NoLast
    /\ tocHistory = {}
    /\ selector = ClosedSelector

DefaultSettings ==
    [peopleDirectoryPath |-> PeopleDirectoryPath,
     tableOfContentsFileName |-> TableOfContentsFileName,
     embeddingFormat |-> "wikilink", noteEmbedType |-> "link",
     tocContentType |-> "link", timestampFormat |-> "iso-with-seconds"]

OtherSettings ==
    [peopleDirectoryPath |-> PeopleDirectoryPath,
     tableOfContentsFileName |-> TableOfContentsFileName,
     embeddingFormat |-> "markdown-link", noteEmbedType |-> "embed",
     tocContentType |-> "embed", timestampFormat |-> "iso-without-seconds"]

Init ==
    /\ settings \in {DefaultSettings, OtherSettings}
    /\ folders \in {{}, {PeopleDirectoryPath, PersonAB}}
    /\ vault = <<TodayFile>>
    /\ activeFile \in {NoFile, TodayPath}
    /\ now = Instant(1)
    /\ InitControl

Next ==
    \/ \E p \in Procs, personName \in PersonNames,
          timestamp \in {Undefined, Instant(MaxTime)}, embedOpt, tocOpt \in BOOLEAN :
            StartCreateNote(p, personName, timestamp, embedOpt, tocOpt)
    \/ \E p \in Procs : CreatePeopleFolder(p)
    \/ \E p \in Procs : CreatePersonFolder(p)
    \/ \E p \in Procs : CreateNoteFile(p)
    \/ \E p \in Procs : EmbedRead(p)
    \/ \E p \in Procs : EmbedModify(p)
    \/ \E p \in Procs : TocCreate(p)
    \/ \E p \in Procs : TocRead(p)
    \/ \E p \in Procs : TocModify(p)

Spec == Init /\ [][Next]_vars

(***************************************************************************)
(* SpecToc: one logical flow calling updateTableOfContents, one call after *)
(* the other, on the index document of one person.                         *)
(***************************************************************************)
TocNotes(s) == {NoteOf(NameAB, t, s) : t \in Instants}

InitToc ==
    /\ settings \in {s \in SettingsSpace : s.noteEmbedType = "link"}
    /\ folders = {PeopleDirectoryPath, PersonAB}
    /\ vault = <<>>
    /\ activeFile = NoFile
    /\ now = Instant(1)
    /\ InitControl

NextToc ==
    \/ \E note \in TocNotes(settings) : StartUpdateTableOfContents(1, note)
    \/ TocCreate(1)
    \/ TocRead(1)
    \/ TocModify(1)
    \/ \E content \in UserDocs(settings) : UserCreate(TocPathOf(NameAB, settings), content)

SpecToc == InitToc /\ [][NextToc]_vars

(***************************************************************************)
(* SpecIndex: one logical flow calling regenerateTableOfContents, with the *)
(* Person Directory Index (DirectoryManagerImpl) or with a directory       *)
(* manager of the caller's that supplies the list of notes.                *)
(***************************************************************************)
\* the lists of notes of the person, each of a file of its own
NoteLists(s) ==
    {l \in UNION {[1..n -> TocNotes(s)] : n \in 0..MaxTime} :
        \A i, j \in 1..Len(l) : i # j => l[i].filePath # l[j].filePath}

SuppliedPersonInfo(personName, notes, s) ==
    [name |-> personName, normalizedName |-> normalizePersonName(personName),
     directoryPath |-> PersonPath(personName, s), notes |-> notes, found |-> TRUE]

NextIndex ==
    \/ StartRegenerate(1, NameAB,
                       getPersonInfo(folders, vault, NameAB, settings, now), FALSE)
    \/ \E notes \in NoteLists(settings) :
          StartRegenerate(1, NameAB, SuppliedPersonInfo(NameAB, notes, settings), TRUE)
    \/ RegenCreate(1)
    \/ RegenModify(1)
    \/ \E t \in Instants : PutNoteFile(NameAB, t)
    \/ Tick

InitIndex ==
    /\ settings \in {DefaultSettings, OtherSettings}
    /\ folders \in {{PeopleDirectoryPath}, {PeopleDirectoryPath, PersonAB}}
    /\ vault = <<>>
    /\ activeFile = NoFile
    /\ now = Instant(1)
    /\ InitControl

SpecIndex == InitIndex /\ [][NextIndex]_vars

(***************************************************************************)
(* Properties of createNote (Spec), read off the result of a finished      *)
(* invocation and the log of what the invocation did.                      *)
(***************************************************************************)
Has(log, event) == \E i \in 1..Len(log) : log[i] = event

Count(log, event) == Cardinality({i \in 1..Len(log) : log[i] = event})

Before(log, first, second) ==
    \A i \in 1..Len(log) : log[i] = second => \E j \in 1..(i - 1) : log[j] = first

StoreOps ==
    {"vault.createFolder(people)", "vault.createFolder(person)", "vault.create(note)",
     "vault.read(active)", "vault.modify(active)",
     "vault.create(toc)", "vault.read(toc)", "vault.modify(toc)"}

CreateNoteDone(p) == pc[p] = "done" /\ frame[p].op = "createNote"

\* the log ends with the store operation op throwing and the invocation returning
EndsThrowing(log, op) ==
    /\ Len(log) >= 3
    /\ SubSeq(log, Len(log) - 2, Len(log)) = <<op, "threw", "return">>

\* the attempt that starts with event begin has run and was not ended by a throw
Succeeded(log, begin, end) ==
    \E i, j \in 1..Len(log) :
        /\ i < j
        /\ log[i] = begin
        /\ log[j] = end
        /\ \A k \in (i + 1)..(j - 1) : log[k] # "threw"

\* C1: createNote reports success exactly when the note file was created, and
\* then returns the created note, whatever became of the embed and of the index
\* update; it reports failure only when validation, the creation of a directory
\* or the creation of the note file failed.
C1_SuccessIffNoteFileCreated ==
    \A p \in Procs : CreateNoteDone(p) =>
        LET r == frame[p].result
            log == oplog[p]
        IN  /\ r.success <=> Has(log, "noteCreated")
            /\ r.success =>
                 /\ r.note = frame[p].note
                 /\ r.note.filePath = NoteFilePath(frame[p].personName,
                                                   r.note.timestamp, settings)
                 /\ FileExists(vault, r.note.filePath)
            /\ ~r.success =>
                 /\ r.note = NoNote
                 /\ \/ Trim(frame[p].personName) = <<>> /\ log = <<"return">>
                    \/ EndsThrowing(log, "vault.createFolder(people)")
                    \/ EndsThrowing(log, "vault.createFolder(person)")
                    \/ EndsThrowing(log, "vault.create(note)")

\* the note was created while both the embed and the index update threw
C1_Witness ==
    \E p \in Procs :
        /\ CreateNoteDone(p)
        /\ frame[p].result.success
        /\ frame[p].embedOpt /\ frame[p].tocOpt
        /\ ~frame[p].result.embedded /\ ~frame[p].result.tocUpdated
        /\ Count(oplog[p], "threw") = 2

\* C2: createNote with an empty or whitespace-only person name returns
\* success=false with an error message, no note, embedded=false and
\* tocUpdated=false, and performs no store operation.
C2_BlankNameRejected ==
    \A p \in Procs :
        CreateNoteDone(p) /\ Trim(frame[p].personName) = <<>> =>
            /\ frame[p].result = [kind |-> "createNote", success |-> FALSE,
                                  note |-> NoNote,
                                  error |-> "Person name cannot be empty",
                                  embedded |-> FALSE, tocUpdated |-> FALSE]
            /\ \A op \in StoreOps : ~Has(oplog[p], op)
            /\ oplog[p] = <<"return">>

\* a call with a whitespace-only name has returned, asking for embed and index
C2_Witness ==
    \E p \in Procs :
        /\ CreateNoteDone(p)
        /\ frame[p].personName = NameBlank
        /\ frame[p].embedOpt /\ frame[p].tocOpt
        /\ ~frame[p].result.success

\* C3: within one createNote: the root people directory, then the person's
\* directory, are ensured strictly before the note file is created; the note
\* file is created strictly before any embed or index update is attempted;
\* and the result is reported only after every attempted embed and index
\* update has completed or failed.
C3_OrderWithinCreateNote ==
    \A p \in Procs : frame[p].op = "createNote" =>
        LET log == oplog[p] IN
        /\ Before(log, "ensured:people", "ensured:person")
        /\ Before(log, "ensured:people", "vault.createFolder(person)")
        /\ Before(log, "ensured:person", "vault.create(note)")
        /\ Before(log, "vault.create(note)", "noteCreated")
        /\ \A op \in {"embed:begin", "toc:begin", "vault.read(active)",
                      "vault.modify(active)", "vault.create(toc)",
                      "vault.read(toc)", "vault.modify(toc)"} :
               Before(log, "noteCreated", op)
        /\ Has(log, "return") =>
               /\ log[Len(log)] = "return"
               /\ Count(log, "return") = 1
               /\ pc[p] = "done"
               /\ Count(log, "embed:begin") = Count(log, "embed:end")
               /\ Count(log, "toc:begin") = Count(log, "toc:end")
               /\ frame[p].result.success =>
                    /\ frame[p].embedOpt => Has(log, "embed:end")
                    /\ frame[p].tocOpt => Has(log, "toc:end")
        /\ pc[p] = "done" => Has(log, "return")

\* both directories were created by the call, and embed and index were attempted
C3_Witness ==
    \E p \in Procs :
        /\ CreateNoteDone(p)
        /\ Has(oplog[p], "vault.createFolder(people)")
        /\ Has(oplog[p], "vault.createFolder(person)")
        /\ Has(oplog[p], "vault.modify(active)")
        /\ Has(oplog[p], "vault.modify(toc)")
        /\ frame[p].result.success

\* C4: in a successful result, embedded is true exactly when the embed was
\* requested and succeeded, and tocUpdated is true exactly when the index update
\* was requested and succeeded; a failed or skipped embed never prevents the
\* index update from being attempted, and a failed index update never changes
\* the embedded flag.
C4_FlagsIndependent ==
    \A p \in Procs : CreateNoteDone(p) /\ frame[p].result.success =>
        LET r == frame[p].result
            log == oplog[p]
        IN  /\ r.embedded <=>
                 frame[p].embedOpt /\ Succeeded(log, "embed:begin", "embed:end")
                                   /\ Has(log, "active:modified")
            /\ r.tocUpdated <=>
                 frame[p].tocOpt /\ Succeeded(log, "toc:begin", "toc:end")
            /\ frame[p].tocOpt <=> Has(log, "toc:begin")
            /\ frame[p].embedOpt <=> Has(log, "embed:begin")

\* the embed failed and the index update went through all the same
C4_Witness ==
    \E p \in Procs :
        /\ CreateNoteDone(p)
        /\ frame[p].result.success
        /\ frame[p].embedOpt /\ ~frame[p].result.embedded
        /\ Has(oplog[p], "vault.read(active)")
        /\ frame[p].result.tocUpdated

(***************************************************************************)
(* Properties of updateTableOfContents (SpecToc).                          *)
(***************************************************************************)
Reverse(seq) == [i \in 1..Len(seq) |-> seq[Len(seq) + 1 - i]]

LinesOf(content) == Split(content, Newline)

\* the non-blank lines after the first divider line of a document
EntryLinesOf(content) ==
    LET lines == LinesOf(content)
        d == FirstDivider(lines)
    IN  IF d = 0 THEN <<>>
        ELSE SelectSeq(SubSeq(lines, d + 1, Len(lines)), LAMBDA l : Trim(l) # <<>>)

\* the number of lines of the document that are the entry line of the note
EntryCount(content, note, s) ==
    LET lines == LinesOf(content) IN
    Cardinality({i \in 1..Len(lines) : lines[i] = TocEntry(note, s)})

IndexPath == TocPathOf(NameAB, settings)

IndexContent(files) == ReadFile(files, IndexPath)

UpdatingToc == frame[1].op = "updateTableOfContents" /\ ~Free(1)

\* no step of a call that repeats the call before it, which returned true,
\* with the same note changes any document
RepeatedCallChangesNothing ==
    UpdatingToc /\ frame[1].repeat => vault' = vault

\* C5: a second updateTableOfContents call with the same note, right after a
\* first one that returned true, leaves the index document byte-identical to
\* its content after the first call; and after any sequence of calls under
\* fixed settings, no note has more than one entry line in the index.
C5_Idempotent ==
    /\ [][RepeatedCallChangesNothing]_vars
    /\ [](FileExists(vault, IndexPath) =>
            \A note \in TocNotes(settings) :
                EntryCount(IndexContent(vault), note, settings) <= 1)

\* the repeated call has returned true, and the note has its entry line
C5_Witness ==
    /\ pc[1] = "done"
    /\ frame[1].op = "updateTableOfContents"
    /\ frame[1].repeat
    /\ frame[1].result.ok
    /\ EntryCount(IndexContent(vault), frame[1].note, settings) = 1

\* newLines is oldLines with the one line entry inserted at some position
InsertedOneLine(oldLines, newLines, entry) ==
    /\ Len(newLines) = Len(oldLines) + 1
    /\ \E k \in 1..Len(newLines) :
        /\ newLines[k] = entry
        /\ \A i \in 1..(k - 1) : newLines[i] = oldLines[i]
        /\ \A i \in k..Len(oldLines) : newLines[i + 1] = oldLines[i]

\* a step of updateTableOfContents that writes an index document which existed
\* and did not contain the reference of the note
WritesExistingIndex ==
    /\ UpdatingToc
    /\ pc[1] = "tocModify"
    /\ vault' # vault

InsertsOneLineOnly ==
    WritesExistingIndex =>
        LET path == frame[1].tocPath
            old == ReadFile(vault, path)
            ref == formatNoteLink(frame[1].note, settings.embeddingFormat,
                                  settings.tocContentType)
        IN  /\ ~Includes(old, ref)
            /\ InsertedOneLine(LinesOf(old), LinesOf(ReadFile(vault', path)),
                               EntryPrefix \o ref)
            /\ Len(vault') = Len(vault)
            /\ \A i \in 1..Len(vault) :
                   vault[i].path # path => vault'[i] = vault[i]

\* C6: updateTableOfContents on an existing index document whose text does not
\* contain the reference of the note inserts exactly one line, "- " followed
\* by the reference, and leaves every line that was there before present,
\* unmodified and in the same relative order.
C6_InsertKeepsLines == [][InsertsOneLineOnly]_vars

\* the call read an index document the user had written, inserted its line
\* and returned true; the user's remark is still there
C6_Witness ==
    /\ pc[1] = "done"
    /\ frame[1].op = "updateTableOfContents"
    /\ frame[1].result.ok
    /\ Has(oplog[1], "vault.read(toc)")
    /\ Has(oplog[1], "vault.modify(toc)")
    /\ Includes(IndexContent(vault), <<"m", "y", " ", "r", "e", "m", "a", "r", "k">>)
    /\ EntryCount(IndexContent(vault), frame[1].note, settings) = 1

\* C7: for an index document that was absent and that updateTableOfContents
\* calls, one after the other, created and filled with notes of one person
\* with distinct references, the entry lines after the divider are the
\* inserted entries in reverse order of insertion: the newest entry is first.
C7_NewestEntryFirst ==
    \A h \in tocHistory :
        /\ FileExists(vault, h.path)
        /\ EntryLinesOf(ReadFile(vault, h.path)) = Reverse(h.entries)

\* two notes were entered, the earlier one first, and the later one is listed first
C7_Witness ==
    \E h \in tocHistory :
        /\ Len(h.entries) = 2
        /\ h.entries[1] = TocEntry(NoteOf(NameAB, Instant(1), settings), settings)
        /\ EntryLinesOf(ReadFile(vault, h.path))[1]
             = TocEntry(NoteOf(NameAB, Instant(2), settings), settings)

(***************************************************************************)
(* Properties of regenerateTableOfContents and of the enumeration of a     *)
(* person's notes (SpecIndex).                                             *)
(***************************************************************************)
RegenerateDone(supplied) ==
    /\ pc[1] = "done"
    /\ frame[1].op = "regenerateTableOfContents"
    /\ frame[1].supplied = supplied
    /\ frame[1].result.ok

EntriesOf(notes, s) == [i \in 1..Len(notes) |-> TocEntry(notes[i], s)]

\* C8: regenerateTableOfContents run with the list of notes that
\* DirectoryManager.getPersonInfo returns rebuilds the index newest-first: of
\* any two entries, the one of the note with the later timestamp comes first.
C8_RegeneratedNewestFirst ==
    RegenerateDone(FALSE) =>
        LET entries == EntryLinesOf(IndexContent(vault))
            notes == frame[1].notes
        IN  \A i, j \in 1..Len(entries) : i < j =>
                \A a, b \in 1..Len(notes) :
                    /\ entries[i] = TocEntry(notes[a], settings)
                    /\ entries[j] = TocEntry(notes[b], settings)
                    => notes[a].timestamp >= notes[b].timestamp

\* C9: regenerateTableOfContents with a list of notes supplied by the caller
\* writes the fresh header and divider followed by exactly one entry line per
\* supplied note, in the reverse of the order of the list; a list supplied
\* oldest-first is written newest-first.
C9_SuppliedListReversed ==
    RegenerateDone(TRUE) =>
        LET content == IndexContent(vault)
            lines == LinesOf(content)
            fresh == LinesOf(createInitialTocContent(frame[1].personName))
            d == FirstDivider(fresh)
        IN  /\ FirstDivider(lines) = d
            /\ SubSeq(lines, 1, d) = SubSeq(fresh, 1, d)
            /\ EntryLinesOf(content) = Reverse(EntriesOf(frame[1].notes, settings))

\* two notes were supplied oldest-first and the later one is listed first
C9_Witness ==
    /\ RegenerateDone(TRUE)
    /\ Len(frame[1].notes) = 2
    /\ frame[1].notes[1].timestamp < frame[1].notes[2].timestamp
    /\ EntryLinesOf(IndexContent(vault))[1] = TocEntry(frame[1].notes[2], settings)

\* the people getAllPeople and getPersonInfo report
EnumeratedPeople ==
    getAllPeople(folders, vault, settings, now)
        \cup {getPersonInfo(folders, vault, NameAB, settings, now)}

\* C10: for every person directory that contains its index document, the
\* notes enumerated by getAllPeople and getPersonInfo do not include the index
\* document, and an index rebuilt by regenerateTableOfContents has no entry
\* referencing the index document itself.
C10_IndexNotEnumerated ==
    /\ \A person \in EnumeratedPeople : person.found =>
         \A i \in 1..Len(person.notes) :
             person.notes[i].filePath
                # person.directoryPath \o Slash
                    \o generateTocFileName(person.name, settings)
    /\ RegenerateDone(FALSE) =>
         \A i \in 1..Len(frame[1].notes) : frame[1].notes[i].filePath # IndexPath

(***************************************************************************)
(* Store errors in updateTableOfContents and regenerateTableOfContents.    *)
(***************************************************************************)
\* the index document holds everything the call in frame f set out to write
FullyUpdated(f, files, s) ==
    LET doc == DocAt(files, f.tocPath) IN
    /\ doc.exists
    /\ IF f.op = "updateTableOfContents"
       THEN Includes(doc.content,
                     formatNoteLink(f.note, s.embeddingFormat, s.tocContentType))
       ELSE doc.content = AddAllNotes(createInitialTocContent(f.personName),
                                      f.notes, s)

\* C11: when updateTableOfContents or regenerateTableOfContents hits a store
\* error it returns false, and the index document is then either fully
\* updated or exactly as it was before the call; a returned false never leaves
\* an index document newly created with the header but without the entry.
C11_FailureLeavesIndexIntact ==
    /\ pc[1] = "done"
    /\ frame[1].op \in {"updateTableOfContents", "regenerateTableOfContents"}
    /\ Has(oplog[1], "threw")
    => /\ frame[1].result = [kind |-> "boolean", ok |-> FALSE]
       /\ \/ DocAt(vault, frame[1].tocPath) = frame[1].before
          \/ FullyUpdated(frame[1], vault, settings)

(***************************************************************************)
(* SpecEmbed: one logical flow calling embedInCurrentNote, one call after  *)
(* the other, with or without an active document.                          *)
(***************************************************************************)
StartEmbedInCurrentNote(p, note) ==
    /\ Free(p)
    /\ calls < MaxCalls
    /\ calls' = calls + 1
    /\ LET f0 == [IdleFrame EXCEPT !.op = "embedInCurrentNote",
                                   !.personName = note.personName, !.note = note,
                                   !.before = DocAt(vault, activeFile)]
       IN  Set(p, BeginEmbed([pc |-> "idle", f |-> f0, log |-> <<>>], vault,
                             activeFile, settings))
    /\ UNCHANGED <<selector, settings, folders, vault, activeFile, now, tocHistory>>

\* a note of the person that is in the store besides the active document
OtherFile(s) ==
    [path |-> NoteFilePath(NameAB, Instant(1), s),
     content |-> generateNoteContent(NameAB, Instant(1), s), mtime |-> Instant(1)]

InitEmbed ==
    /\ settings \in SettingsSpace
    /\ folders = {PeopleDirectoryPath, PersonAB}
    /\ vault = <<TodayFile, OtherFile(settings)>>
    /\ activeFile \in {NoFile, TodayPath}
    /\ now = Instant(1)
    /\ InitControl

NextEmbed ==
    \/ \E note \in TocNotes(settings) : StartEmbedInCurrentNote(1, note)
    \/ EmbedRead(1)
    \/ EmbedModify(1)

SpecEmbed == InitEmbed /\ [][NextEmbed]_vars

EmbedDone == pc[1] = "done" /\ frame[1].op = "embedInCurrentNote"

\* C12: with no active document embedInCurrentNote returns false and writes
\* nothing; in every case it returns true exactly when it wrote the active
\* document; and on a read or write fault it returns false.
C12_EmbedReportsWrite ==
    EmbedDone =>
        LET log == oplog[1]
            ok == frame[1].result.ok
        IN  /\ frame[1].result.kind = "boolean"
            /\ ok <=> Has(log, "active:modified")
            /\ ok <=> DocAt(vault, activeFile) # frame[1].before
            /\ Has(log, "threw") => ~ok
            /\ activeFile = NoFile =>
                 /\ ~ok
                 /\ \A op \in StoreOps : ~Has(log, op)

\* a call without active document has returned false after an earlier call
C12_Witness ==
    /\ EmbedDone
    /\ activeFile = NoFile
    /\ ~frame[1].result.ok
    /\ calls = 2

\* a step of an embedInCurrentNote call leaves every document but the active
\* one as it is, and writes the active one as the content the call found,
\* two newlines and the reference of the note
EmbedAppendsReference ==
    frame[1].op = "embedInCurrentNote" /\ ~Free(1) =>
        /\ Len(vault') = Len(vault)
        /\ \A i \in 1..Len(vault) :
               vault[i].path # activeFile => vault'[i] = vault[i]
        /\ vault' # vault =>
               ReadFile(vault', activeFile)
                 = frame[1].before.content \o <<"\n", "\n">>
                     \o formatNoteLink(frame[1].note, settings.embeddingFormat,
                                       settings.noteEmbedType)

\* C13: with an active document of content c, a successful
\* embedInCurrentNote(note) leaves the active document with content exactly
\* c, two newlines and formatNoteLink(note, embeddingFormat, noteEmbedType),
\* and leaves every other document of the store unchanged.
C13_EmbedAppendsExactly == [][EmbedAppendsReference]_vars

\* "Existing content" got the wikilink of the first note appended
C13_Witness ==
    /\ EmbedDone
    /\ frame[1].result.ok
    /\ settings.embeddingFormat = "wikilink" /\ settings.noteEmbedType = "link"
    /\ ReadFile(vault, TodayPath)
         = ExistingContent \o <<"\n", "\n", "[", "[">>
             \o NameAB \o <<" ", "2", "0", "2", "5", "-", "0", "9", "-", "1", "1", "-", "-", "1", "0", "-", "1", "8", "-", "5", "9", "]", "]">>

(***************************************************************************)
(* Overlapping createNote invocations (Spec).                              *)
(***************************************************************************)
\* no invocation began while another one was in progress
Serialized == \A q \in Procs : ~frame[q].overlapped

\* the invocation of p created its note and reported the index as updated
IndexReported(p) ==
    /\ CreateNoteDone(p)
    /\ frame[p].result.success
    /\ frame[p].result.tocUpdated

\* the person's index document has the reference of the note
InIndex(note) ==
    LET path == TocPathOf(note.personName, settings) IN
    /\ FileExists(vault, path)
    /\ Includes(ReadFile(vault, path),
                formatNoteLink(note, settings.embeddingFormat, settings.tocContentType))

\* C14: when the createNote invocations for one person are serialized, the
\* person's index has an entry for every note whose creation reported the
\* index as updated; an update of the index is lost only when invocations
\* overlap, and then there is an interleaving that loses one.
C14_SerializedKeepsEntries ==
    Serialized => \A p \in Procs : IndexReported(p) => InIndex(frame[p].note)

\* two overlapping invocations both reported the index as updated, and the
\* index has the entry of the second but not the entry of the first
C14_Witness ==
    /\ IndexReported(1) /\ IndexReported(2)
    /\ frame[2].overlapped
    /\ frame[1].note # frame[2].note
    /\ ~InIndex(frame[1].note)
    /\ InIndex(frame[2].note)

\* both creations in serial order, both entries in the index
C14_WitnessSerial ==
    /\ IndexReported(1) /\ IndexReported(2)
    /\ Serialized
    /\ frame[1].note # frame[2].note
    /\ InIndex(frame[1].note) /\ InIndex(frame[2].note)

\* the active document has the reference of the note
InActive(note) ==
    Includes(ReadFile(vault, activeFile),
             formatNoteLink(note, settings.embeddingFormat, settings.noteEmbedType))

\* C15: when two note creations overlap, no document other than the person's
\* index loses an update: once both creations have completed, the references
\* that embedInCurrentNote appended to the active document are both present.
C15_ActiveKeepsBothReferences ==
    \A p \in Procs :
        CreateNoteDone(p) /\ frame[p].result.success /\ frame[p].result.embedded
        /\ (\A q \in Procs : Free(q))
        => InActive(frame[p].note)

(***************************************************************************)
(* SpecNormalize: normalizePersonName applied to the names of up to MaxLen *)
(* characters over letters, whitespace, the hyphen and an invalid          *)
(* filesystem character.                                                   *)
(***************************************************************************)
Strings(chars, n) == UNION {[1..k -> chars] : k \in 0..n}

NameChars == {"a", "b", " ", "-", "/"}

ApplyNormalizePersonName(p, name) ==
    /\ Free(p)
    /\ LET f0 == [IdleFrame EXCEPT !.op = "normalizePersonName", !.personName = name]
       IN  Set(p, ReturnValue([pc |-> "idle", f |-> f0, log |-> <<>>],
                              normalizePersonName(name)))
    /\ UNCHANGED <<selector, settings, folders, vault, activeFile, now, calls, tocHistory>>

InitNormalize ==
    /\ settings = DefaultSettings
    /\ folders = {}
    /\ vault = <<>>
    /\ activeFile = NoFile
    /\ now = Instant(1)
    /\ InitControl

NextNormalize ==
    \E name \in Strings(NameChars, MaxLen) : ApplyNormalizePersonName(1, name)

SpecNormalize == InitNormalize /\ [][NextNormalize]_vars

\* C17: for every string s,
\* normalizePersonName(normalizePersonName(s)) = normalizePersonName(s).
C17_NormalizeIdempotent ==
    pc[1] = "done" /\ frame[1].op = "normalizePersonName" =>
        normalizePersonName(frame[1].result.value) = frame[1].result.value

(***************************************************************************)
(* FuzzySearchServiceImpl: calculateMatchScore.  A score is a fraction     *)
(* <<numerator, denominator>> with a positive denominator, so that the     *)
(* quotients and products of the code are computed exactly.                *)
(***************************************************************************)
UpperCaseLetters ==
    <<"A", "B", "C", "D", "E", "F", "G", "H", "I", "J", "K", "L", "M",
      "N", "O", "P", "Q", "R", "S", "T", "U", "V", "W", "X", "Y", "Z">>

LowerCaseLetters ==
    <<"a", "b", "c", "d", "e", "f", "g", "h", "i", "j", "k", "l", "m",
      "n", "o", "p", "q", "r", "s", "t", "u", "v", "w", "x", "y", "z">>

\* the character at the place c has in the sequence from, taken from the sequence to
MapChar(c, from, to) ==
    IF \E i \in 1..Len(from) : from[i] = c
    THEN to[CHOOSE i \in 1..Len(from) : from[i] = c]
    ELSE c

toLowerCase(s) == [i \in 1..Len(s) |-> MapChar(s[i], UpperCaseLetters, LowerCaseLetters)]

toUpperCase(s) == [i \in 1..Len(s) |-> MapChar(s[i], LowerCaseLetters, UpperCaseLetters)]

startsWith(s, prefix) == prefix = <<>> \/ OccursAt(s, prefix, 1)

\* s.split(/\s+/)
SplitWhitespace(s) == Split(CollapseWhitespace(s), <<" ">>)

ScoreEq(a, b) == a[1] * b[2] = b[1] * a[2]

ScoreLess(a, b) == a[1] * b[2] < b[1] * a[2]

\* word.charAt(0) of every word, joined
RECURSIVE FirstChars(_)
FirstChars(words) ==
    IF words = <<>> THEN <<>>
    ELSE (IF Head(words) = <<>> THEN <<>> ELSE <<Head(Head(words))>>)
           \o FirstChars(Tail(words))

extractInitials(name) == toUpperCase(FirstChars(SplitWhitespace(name)))

\* the for loop of calculateFuzzyScore from the i-th character of the name on
RECURSIVE FuzzyMatches(_, _, _, _, _)
FuzzyMatches(nameChars, queryChars, i, queryIndex, matches) ==
    IF i > Len(nameChars) THEN matches
    ELSE IF queryIndex < Len(queryChars) /\ nameChars[i] = queryChars[queryIndex + 1]
         THEN FuzzyMatches(nameChars, queryChars, i + 1, queryIndex + 1, matches + 1)
         ELSE FuzzyMatches(nameChars, queryChars, i + 1, queryIndex, matches)

\* query.length / name.length is Infinity for an empty name
calculateFuzzyScore(name, query) ==
    LET matches == FuzzyMatches(name, query, 1, 0, 0)
        sequentialMatchRatio == <<matches, Len(query)>>
        lengthPenalty == IF Len(name) = 0 \/ Len(query) >= Len(name)
                         THEN <<1, 1>>
                         ELSE <<Len(query), Len(name)>>
    IN  <<sequentialMatchRatio[1] * lengthPenalty[1],
          sequentialMatchRatio[2] * lengthPenalty[2]>>

\* queryWords.filter(qWord => nameWords.some(nWord => ...)).length
MatchingWords(queryWords, nameWords) ==
    Cardinality({i \in 1..Len(queryWords) :
        \E j \in 1..Len(nameWords) :
            \/ Includes(nameWords[j], queryWords[i])
            \/ Includes(queryWords[i], nameWords[j])})

\* calculateMatchScore, with the return statement (tier) that produced the score
MatchResult(personName, query) ==
    LET name == toLowerCase(personName)
        q == toLowerCase(query)
        fuzzyScore == calculateFuzzyScore(name, q)
        queryWords == SplitWhitespace(q)
        nameWords == SplitWhitespace(name)
        matchingWords == MatchingWords(queryWords, nameWords)
    IN  IF Trim(query) = <<>> THEN [tier |-> "empty", score |-> <<0, 1>>]
        ELSE IF name = q THEN [tier |-> "exact", score |-> <<1, 1>>]
        ELSE IF toLowerCase(personName) = toLowerCase(query)
             THEN [tier |-> "exactIgnoringCase", score |-> <<95, 100>>]
        ELSE IF startsWith(name, q) THEN [tier |-> "prefix", score |-> <<8, 10>>]
        ELSE IF Includes(name, <<" ">> \o q) \/ Includes(name, q \o <<" ">>)
             THEN [tier |-> "word", score |-> <<7, 10>>]
        ELSE IF Includes(name, q) THEN [tier |-> "substring", score |-> <<6, 10>>]
        ELSE IF toLowerCase(extractInitials(personName)) = q
             THEN [tier |-> "initials", score |-> <<5, 10>>]
        ELSE IF ScoreLess(<<3, 10>>, fuzzyScore)
             THEN [tier |-> "fuzzy", score |-> fuzzyScore]
        ELSE IF matchingWords = Len(queryWords)
             THEN [tier |-> "allWords", score |-> <<4, 10>>]
        ELSE IF matchingWords > 0
             THEN [tier |-> "someWords",
                   score |-> <<2 * Len(queryWords) + 2 * matchingWords,
                               10 * Len(queryWords)>>]
        ELSE [tier |-> "none", score |-> <<0, 1>>]

\* as if the test for an exact match (name === q) were absent
calculateMatchScoreWithoutExact(personName, query) ==
    IF Trim(query) = <<>> THEN <<0, 1>>
    ELSE IF toLowerCase(personName) = toLowerCase(query) THEN <<95, 100>>
    ELSE MatchResult(personName, query).score

calculateMatchScore(personName, query) == MatchResult(personName, query).score

(***************************************************************************)
(* SpecScore: calculateMatchScore applied to the names and queries of up   *)
(* to MaxLen characters over two letters, a capital and the space.         *)
(***************************************************************************)
ScoreChars == {"a", "b", "A", " "}

ApplyCalculateMatchScore(p, personName, query) ==
    /\ pc[p] = "idle"
    /\ LET f0 == [IdleFrame EXCEPT !.op = "calculateMatchScore",
                                   !.personName = personName, !.query = query]
       IN  Set(p, ReturnValue([pc |-> "idle", f |-> f0, log |-> <<>>],
                              calculateMatchScore(personName, query)))
    /\ UNCHANGED <<selector, settings, folders, vault, activeFile, now, calls, tocHistory>>

\* one application in a behaviour
NextScore ==
    /\ pc[1] = "idle"
    /\ \E personName, query \in Strings(ScoreChars, MaxLen) :
           ApplyCalculateMatchScore(1, personName, query)

SpecScore == InitNormalize /\ [][NextScore]_vars

ScoreDone == pc[1] = "done" /\ frame[1].op = "calculateMatchScore"

\* C18 as stated: for every name n, calculateMatchScore(n, n) = 1.0, and for
\* every name n, calculateMatchScore(n, "") = 0.
C18_AsStated ==
    ScoreDone =>
        /\ frame[1].personName = frame[1].query
             => ScoreEq(frame[1].result.value, <<1, 1>>)
        /\ frame[1].query = <<>> => ScoreEq(frame[1].result.value, <<0, 1>>)

\* C18: for every name n that is not blank, calculateMatchScore(n, n) = 1.0;
\* for every name n, calculateMatchScore(n, "") = 0.
C18_SelfScoreOneEmptyQueryZero ==
    ScoreDone =>
        /\ frame[1].personName = frame[1].query /\ Trim(frame[1].personName) # <<>>
             => ScoreEq(frame[1].result.value, <<1, 1>>)
        /\ frame[1].query = <<>> => ScoreEq(frame[1].result.value, <<0, 1>>)

\* a name of two words was scored against itself
C18_Witness ==
    /\ ScoreDone
    /\ frame[1].personName = <<"A", " ", "b">>
    /\ frame[1].query = frame[1].personName
    /\ frame[1].result.value = <<1, 1>>

\* C19: calculateMatchScore returns 1.0 only when candidate and query are
\* equal case-sensitively, and returns 0.95 when they are equal ignoring case
\* but differ in the case of at least one character.
C19_ExactOnlyCaseSensitive ==
    ScoreDone /\ Trim(frame[1].query) # <<>> =>
        /\ ScoreEq(frame[1].result.value, <<1, 1>>)
             => frame[1].personName = frame[1].query
        /\ (toLowerCase(frame[1].personName) = toLowerCase(frame[1].query)
              /\ frame[1].personName # frame[1].query)
             => ScoreEq(frame[1].result.value, <<95, 100>>)

ApproximateTiers == {"fuzzy", "allWords", "someWords"}

\* C20: every score that calculateMatchScore produces from its approximate
\* tiers (the fuzzy score with length penalty, and the word-overlap score) is
\* below 0.5, the score of an initials match.
C20_ApproximateBelowInitials ==
    ScoreDone /\ MatchResult(frame[1].personName, frame[1].query).tier \in ApproximateTiers
        => ScoreLess(frame[1].result.value, <<5, 10>>)

(***************************************************************************)
(* FuzzySearchServiceImpl.searchPeople and the person selector             *)
(* (PersonSelectorModal): getItems, called on every input event, and       *)
(* performAsyncSearch, whose searches complete in any order.               *)
(***************************************************************************)
PersonInfo(name, normalizedName, directoryPath, notes) ==
    [name |-> name, normalizedName |-> normalizedName,
     directoryPath |-> directoryPath, notes |-> notes]

PersonSearchResult(person, isNewPerson, matchScore) ==
    [person |-> person, isNewPerson |-> isNewPerson, matchScore |-> matchScore]

\* results.sort((a, b) => b.matchScore - a.matchScore): one result put into a
\* sorted list behind the results that score at least as high (the sort is stable)
RECURSIVE InsertByScore(_, _)
InsertByScore(sorted, result) ==
    IF sorted = <<>> THEN <<result>>
    ELSE IF ScoreLess(Head(sorted).matchScore, result.matchScore)
         THEN <<result>> \o sorted
         ELSE <<Head(sorted)>> \o InsertByScore(Tail(sorted), result)

\* as if the results were not sorted
SortByScoreSkipped(results) == results

RECURSIVE SortByScore(_)
SortByScore(results) ==
    IF results = <<>> THEN <<>>
    ELSE InsertByScore(SortByScore(SubSeq(results, 1, Len(results) - 1)),
                       results[Len(results)])

\* as if every known person were a result, whatever the score
RECURSIVE ExistingMatchesUnfiltered(_, _)
ExistingMatchesUnfiltered(allPeople, query) ==
    IF allPeople = <<>> THEN <<>>
    ELSE <<PersonSearchResult(Head(allPeople), FALSE,
                              calculateMatchScore(Head(allPeople).name, query))>>
           \o ExistingMatchesUnfiltered(Tail(allPeople), query)

\* the loop over allPeople: the people that score above 0.1
RECURSIVE ExistingMatches(_, _)
ExistingMatches(allPeople, query) ==
    IF allPeople = <<>> THEN <<>>
    ELSE LET person == Head(allPeople)
             score == calculateMatchScore(person.name, query)
         IN  (IF ScoreLess(<<1, 10>>, score)
              THEN <<PersonSearchResult(
                        PersonInfo(person.name, person.normalizedName,
                                   person.directoryPath, person.notes),
                        FALSE, score)>>
              ELSE <<>>)
               \o ExistingMatches(Tail(allPeople), query)

\* searchPeople, given the people getAllPeople returned in the order it returned them
searchPeople(allPeople, query) ==
    IF Trim(query) = <<>> THEN <<>>
    ELSE LET existing == ExistingMatches(allPeople, query)
             exactMatch == \E i \in 1..Len(allPeople) :
                              toLowerCase(allPeople[i].name) = toLowerCase(query)
             newPersonInfo ==
                 PersonInfo(Trim(query), normalizePersonName(Trim(query)),
                            <<"P", "e", "o", "p", "l", "e", "/">>
                                \o normalizePersonName(Trim(query)),
                            <<>>)
             results == IF exactMatch THEN existing
                        ELSE Append(existing, PersonSearchResult(newPersonInfo, TRUE, <<5, 10>>))
             sorted == SortByScore(results)
         IN  SubSeq(sorted, 1, IF Len(sorted) < 10 THEN Len(sorted) ELSE 10)

\* the orders in which getAllPeople can return a set of people
Orders(people) ==
    {order \in [1..Cardinality(people) -> people] :
        \A i, j \in 1..Cardinality(people) : i # j => order[i] # order[j]}

\* the "new person" option getItems offers at once
ImmediateOption(trimmedQuery) ==
    LET cleaned == Trim(ReplaceChars(trimmedQuery, InvalidFilesystemChars, <<"-">>))
    IN  PersonSearchResult(
            PersonInfo(trimmedQuery, cleaned,
                       <<"P", "e", "o", "p", "l", "e", "/">> \o cleaned, <<>>),
            TRUE, <<5, 10>>)

\* getItems: the selector afterwards and the searches it started (none or one).
\* What it returns is kept in the fields returned and returnedFor.
getItems(sel) ==
    LET query == sel.inputValue
        trimmedQuery == Trim(query)
        offered == IF Len(trimmedQuery) > 0
                   THEN [sel EXCEPT !.lastQuery = query,
                                    !.cachedResults = <<ImmediateOption(trimmedQuery)>>,
                                    !.cachedFor = <<query>>]
                   ELSE [sel EXCEPT !.lastQuery = query]
    IN  IF Len(query) < 1
        THEN [sel |-> [sel EXCEPT !.returned = <<>>, !.returnedFor = <<query>>],
              started |-> <<>>]
        ELSE IF query = sel.lastQuery
        THEN [sel |-> [sel EXCEPT !.returned = sel.cachedResults,
                                  !.returnedFor = sel.cachedFor],
              started |-> <<>>]
        ELSE [sel |-> [offered EXCEPT !.returned = offered.cachedResults,
                                      !.returnedFor = offered.cachedFor,
                                      !.pending = Append(sel.pending, query)],
              started |-> <<query>>]

RemoveAt(seq, i) == SubSeq(seq, 1, i - 1) \o SubSeq(seq, i + 1, Len(seq))

\* an input event: the user changed the text of the input to value, and the
\* modal asks getItems for the suggestions
InputChange(value) ==
    LET r == getItems([selector EXCEPT !.inputValue = value])
    IN  /\ r.started # <<>> => calls < MaxCalls
        /\ selector' = r.sel
        /\ calls' = calls + Len(r.started)
        /\ UNCHANGED <<settings, folders, vault, activeFile, now, pc, frame, oplog,
                       lastToc, tocHistory>>

\* the search performAsyncSearch awaits completes: the i-th of the searches in
\* flight.  Its results replace cachedResults, and the input event dispatched
\* makes the modal ask getItems again; a search that fails empties cachedResults.
SearchCompletes(i, fault) ==
    /\ i \in 1..Len(selector.pending)
    /\ LET query == selector.pending[i]
           rest == [selector EXCEPT !.pending = RemoveAt(selector.pending, i)]
       IN  IF fault
           THEN selector' = [rest EXCEPT !.cachedResults = <<>>, !.cachedFor = <<query>>]
           ELSE \E allPeople \in Orders(getAllPeople(folders, vault, settings, now)) :
                    selector' = getItems([rest EXCEPT
                                    !.cachedResults = searchPeople(allPeople, query),
                                    !.cachedFor = <<query>>]).sel
    /\ UNCHANGED <<settings, folders, vault, activeFile, now, pc, frame, oplog,
                   calls, lastToc, tocHistory>>

\* the text typed into the selector
QueryChars == {"a", " "}

PersonA == PeopleDirectoryPath \o Slash \o <<"a">>

InitSelector ==
    /\ settings = DefaultSettings
    /\ folders \in {{PeopleDirectoryPath, PersonA}, {PeopleDirectoryPath, PersonA, PersonAB}}
    /\ vault = <<>>
    /\ activeFile = NoFile
    /\ now = Instant(1)
    /\ InitControl

NextSelector ==
    \/ \E value \in Strings(QueryChars, MaxLen) : InputChange(value)
    \/ \E i \in 1..MaxCalls, fault \in BOOLEAN : SearchCompletes(i, fault)

SpecSelector == InitSelector /\ [][NextSelector]_vars

\* C16: after any sequence of input changes and search completions, in any
\* completion order, a list of results getItems returns for the current input
\* was computed for the current input, never for a different query.
C16_NeverResultsOfOtherQuery ==
    selector.returned # <<>> => selector.returnedFor = <<selector.inputValue>>

(***************************************************************************)
(* SpecSearch: searchPeople applied to the queries of up to MaxLen         *)
(* characters and to the lists of up to MaxPeople people that the          *)
(* directory manager returns from getAllPeople.                            *)
(***************************************************************************)
Letters == <<"a", "b">>

\* the names of k letters, in alphabetical order
RECURSIVE NamesOfLength(_)
NamesOfLength(k) ==
    IF k = 0 THEN <<<<>>>>
    ELSE LET shorter == NamesOfLength(k - 1)
         IN  [i \in 1..(Len(Letters) * Len(shorter)) |->
                <<Letters[((i - 1) \div Len(shorter)) + 1]>>
                    \o shorter[((i - 1) % Len(shorter)) + 1]]

\* the names of one to k letters, shorter names first
RECURSIVE NamesUpTo(_)
NamesUpTo(k) == IF k = 0 THEN <<>> ELSE NamesUpTo(k - 1) \o NamesOfLength(k)

\* the PersonInfo getAllPeople builds for the folder of a person
KnownPerson(name, s) ==
    PersonInfo(name, name, s.peopleDirectoryPath \o Slash \o name, <<>>)

\* the lists getAllPeople returns: the first people of the folder listing, in
\* its order or in the opposite order
PeopleLists(s) ==
    LET names == NamesUpTo(MaxLen)
        Listing(order, n) == [i \in 1..n |-> KnownPerson(order[i], s)]
    IN  {Listing(names, n) : n \in 0..MaxPeople}
            \cup {Listing(Reverse(names), n) : n \in 0..MaxPeople}

ApplySearchPeople(p, allPeople, query) ==
    /\ pc[p] = "idle"
    /\ LET f0 == [IdleFrame EXCEPT !.op = "searchPeople",
                                   !.people = allPeople, !.query = query]
       IN  Set(p, ReturnValue([pc |-> "idle", f |-> f0, log |-> <<>>],
                              searchPeople(allPeople, query)))
    /\ UNCHANGED <<selector, settings, folders, vault, activeFile, now, calls, tocHistory>>

\* one application in a behaviour
NextSearch ==
    /\ pc[1] = "idle"
    /\ \E allPeople \in PeopleLists(settings), query \in Strings(ScoreChars, MaxLen) :
           ApplySearchPeople(1, allPeople, query)

SpecSearch == InitNormalize /\ [][NextSearch]_vars

SearchDone == pc[1] = "done" /\ frame[1].op = "searchPeople"

Results == frame[1].result.value

\* C21: for every query and every list of known people, searchPeople returns
\* at most 10 results, in non-increasing matchScore order, and every result
\* in it that is not the new-person option has matchScore > 0.1.
C21_AtMostTenSortedAboveThreshold ==
    SearchDone =>
        /\ Len(Results) <= 10
        /\ \A i \in 1..(Len(Results) - 1) :
              ~ScoreLess(Results[i].matchScore, Results[i + 1].matchScore)
        /\ \A i \in 1..Len(Results) :
              ~Results[i].isNewPerson => ScoreLess(<<1, 10>>, Results[i].matchScore)

\* more than 10 people matched, and the 10 results kept have different scores
C21_Witness ==
    /\ SearchDone
    /\ Len(ExistingMatches(frame[1].people, frame[1].query)) > 10
    /\ Len(Results) = 10
    /\ ScoreLess(Results[10].matchScore, Results[1].matchScore)

NoPersonMatches(allPeople, query) ==
    \A i \in 1..Len(allPeople) :
        ~ScoreLess(<<1, 10>>, calculateMatchScore(allPeople[i].name, query))

C30_NewPersonIffNoExactMatch ==
    SearchDone /\ Trim(frame[1].query) # <<>> =>
        ((\E i \in 1..Len(Results) : Results[i].isNewPerson)
            <=> ~(\E j \in 1..Len(frame[1].people) :
                     toLowerCase(frame[1].people[j].name) = toLowerCase(frame[1].query)))

(***************************************************************************)
(* SpecNaming: the file name and file path createNote computes, for the    *)
(* non-blank names of up to MaxLen characters, instants with one-digit and *)
(* two-digit hours, minutes and seconds, both timestamp formats and two    *)
(* people folders.                                                         *)
(***************************************************************************)
TeamSettings ==
    [DefaultSettings EXCEPT !.peopleDirectoryPath = <<"T", "e", "a", "m">>,
                            !.timestampFormat = "iso-without-seconds"]

\* 09:08:07, 09:08:48, 09:18:07, ... 10:18:48 of the day of the model
SampleInstants ==
    {NewDate(2025, 8, 11, hour, minute, second) :
        hour \in {9, 10}, minute \in {8, 18}, second \in {7, 48}}

\* createNote from "Generate the file name and path" to the NoteInfo it builds
NameNote(p, personName, timestamp) ==
    /\ pc[p] = "idle"
    /\ Trim(personName) # <<>>
    /\ LET f0 == [IdleFrame EXCEPT !.op = "nameNote", !.personName = personName,
                                   !.note = NoteOf(personName, timestamp, settings)]
       IN  Set(p, ReturnValue([pc |-> "idle", f |-> f0, log |-> <<>>],
                              f0.note.filePath))
    /\ UNCHANGED <<selector, settings, folders, vault, activeFile, now, calls, tocHistory>>

InitNaming ==
    /\ settings \in {DefaultSettings, OtherSettings, TeamSettings}
    /\ folders = {}
    /\ vault = <<>>
    /\ activeFile = NoFile
    /\ now = Instant(1)
    /\ InitControl

\* one application in a behaviour
NextNaming ==
    /\ pc[1] = "idle"
    /\ \E personName \in Strings(NameChars, MaxLen), timestamp \in SampleInstants :
           NameNote(1, personName, timestamp)

SpecNaming == InitNaming /\ [][NextNaming]_vars

NamingDone == pc[1] = "done" /\ frame[1].op = "nameNote"

\* the decimal digits of n, in a field of width places
RECURSIVE ZeroPadded(_, _)
ZeroPadded(n, width) ==
    IF width = 0 THEN <<>>
    ELSE ZeroPadded(n \div 10, width - 1) \o <<Digits[(n % 10) + 1]>>

\* YYYY-MM-DD--HH-mm-ss, or YYYY-MM-DD--HH-mm without seconds
ExpectedTimestamp(date, withSeconds) ==
    ZeroPadded(getFullYear(date), 4) \o <<"-">> \o ZeroPadded(getMonth(date) + 1, 2)
        \o <<"-">> \o ZeroPadded(getDate(date), 2) \o <<"-", "-">>
        \o ZeroPadded(getHours(date), 2) \o <<"-">> \o ZeroPadded(getMinutes(date), 2)
        \o (IF withSeconds THEN <<"-">> \o ZeroPadded(getSeconds(date), 2) ELSE <<>>)

\* C23: for every person name and timestamp, the note created by createNote
\* has fileName = normalizePersonName(name) + " " + formatTimestamp(timestamp)
\* + ".md" and filePath = peopleRoot + "/" + normalizePersonName(name) + "/"
\* + fileName, where formatTimestamp is zero-padded YYYY-MM-DD--HH-mm-ss with
\* seconds and YYYY-MM-DD--HH-mm otherwise.
C23_FileNameAndPath ==
    NamingDone =>
        LET note == frame[1].note
            normalized == normalizePersonName(frame[1].personName)
            stamp == ExpectedTimestamp(note.timestamp,
                                       settings.timestampFormat = "iso-with-seconds")
        IN  /\ note.fileName = normalized \o <<" ">> \o stamp \o <<".", "m", "d">>
            /\ note.filePath = settings.peopleDirectoryPath \o <<"/">> \o normalized
                                   \o <<"/">> \o note.fileName
            /\ frame[1].result.value = note.filePath

\* a name that normalization changes, one-digit hour, minute and second,
\* without-seconds format, in the other people folder
C23_Witness ==
    /\ NamingDone
    /\ settings = TeamSettings
    /\ frame[1].personName = <<"a", "/", "b">>
    /\ frame[1].note.timestamp = NewDate(2025, 8, 11, 9, 8, 7)
    /\ frame[1].note.fileName =
          <<"a", "-", "b", " ", "2", "0", "2", "5", "-", "0", "9", "-", "1", "1",
            "-", "-", "0", "9", "-", "0", "8", ".", "m", "d">>

(***************************************************************************)
(* SpecLink: formatNoteLink applied, with the configured format and embed  *)
(* type, to the notes createNote builds for the non-blank names of up to   *)
(* MaxLen characters.                                                      *)
(***************************************************************************)
LinkChars == {"a", " ", "%", "2", "0"}

ApplyFormatNoteLink(p, note) ==
    /\ pc[p] = "idle"
    /\ LET f0 == [IdleFrame EXCEPT !.op = "formatNoteLink", !.note = note]
       IN  Set(p, ReturnValue([pc |-> "idle", f |-> f0, log |-> <<>>],
                              formatNoteLink(note, settings.embeddingFormat,
                                             settings.noteEmbedType)))
    /\ UNCHANGED <<selector, settings, folders, vault, activeFile, now, calls, tocHistory>>

InitLink ==
    /\ settings \in SettingsSpace
    /\ folders = {}
    /\ vault = <<>>
    /\ activeFile = NoFile
    /\ now = Instant(1)
    /\ InitControl

\* one application in a behaviour
NextLink ==
    /\ pc[1] = "idle"
    /\ \E personName \in {n \in Strings(LinkChars, MaxLen) : Trim(n) # <<>>} :
           ApplyFormatNoteLink(1, NoteOf(personName, now, settings))

SpecLink == InitLink /\ [][NextLink]_vars

LinkDone == pc[1] = "done" /\ frame[1].op = "formatNoteLink"

Link == frame[1].result.value

\* the file name without its .md suffix
BaseName(note) ==
    CHOOSE base \in {SubSeq(note.fileName, 1, k) : k \in 0..Len(note.fileName)} :
        \/ note.fileName = base \o <<".", "m", "d">>
        \/ /\ base = note.fileName
           /\ ~(\E b \in {SubSeq(note.fileName, 1, k) : k \in 0..Len(note.fileName)} :
                   note.fileName = b \o <<".", "m", "d">>)

\* the path with every space written as %20
RECURSIVE SpacesEncoded(_)
SpacesEncoded(path) ==
    IF path = <<>> THEN <<>>
    ELSE (IF Head(path) = " " THEN <<"%", "2", "0">> ELSE <<Head(path)>>)
           \o SpacesEncoded(Tail(path))

\* C24: formatNoteLink returns "[[base]]" for wikilink with link, "![[base]]"
\* for wikilink with embed, and "[base](path with every space replaced by
\* %20)" for markdown-link under either embed type, where base is the file
\* name with its .md suffix stripped.
C24_LinkForms ==
    LinkDone =>
        LET base == BaseName(frame[1].note)
        IN  /\ (settings.embeddingFormat = "wikilink" /\ settings.noteEmbedType = "link")
                 => Link = <<"[", "[">> \o base \o <<"]", "]">>
            /\ (settings.embeddingFormat = "wikilink" /\ settings.noteEmbedType = "embed")
                 => Link = <<"!", "[", "[">> \o base \o <<"]", "]">>
            /\ settings.embeddingFormat = "markdown-link"
                 => Link = <<"[">> \o base \o <<"]", "(">>
                              \o SpacesEncoded(frame[1].note.filePath) \o <<")">>

\* a markdown link was asked for with the embed type, for a path with spaces
C24_Witness ==
    /\ LinkDone
    /\ settings.embeddingFormat = "markdown-link"
    /\ settings.noteEmbedType = "embed"
    /\ frame[1].note.personName = <<"a", " ", "a">>
    /\ Head(Link) = "["
    /\ Includes(Link, <<"a", "%", "2", "0", "a", "/">>)

\* the text with every occurrence of the marker removed, left to right
RECURSIVE Without(_, _)
Without(text, marker) ==
    IF text = <<>> THEN <<>>
    ELSE IF OccursAt(text, marker, 1)
         THEN Without(SubSeq(text, Len(marker) + 1, Len(text)), marker)
         ELSE <<Head(text)>> \o Without(Tail(text), marker)

\* the text with every %20 read as a space, left to right
RECURSIVE SpacesDecoded(_)
SpacesDecoded(text) ==
    IF text = <<>> THEN <<>>
    ELSE IF OccursAt(text, <<"%", "2", "0">>, 1)
         THEN <<" ">> \o SpacesDecoded(SubSeq(text, 4, Len(text)))
         ELSE <<Head(text)>> \o SpacesDecoded(Tail(text))

\* [text](target)
LinkText(link) == SubSeq(link, 2, IndexOf(link, <<"]", "(">>) - 1)

LinkTarget(link) == SubSeq(link, IndexOf(link, <<"]", "(">>) + 2, Len(link) - 1)

\* C25: for every note, stripping "[[" and "]]" from its wikilink form
\* recovers the note's base file name exactly; for the markdown-link form the
\* link text is the base file name, and decoding every "%20" of the link
\* target to a space recovers the note's file path exactly.
C25_RoundTrip ==
    LinkDone =>
        /\ (settings.embeddingFormat = "wikilink" /\ settings.noteEmbedType = "link")
             => Without(Without(Link, <<"[", "[">>), <<"]", "]">>) = BaseName(frame[1].note)
        /\ settings.embeddingFormat = "markdown-link"
             => /\ LinkText(Link) = BaseName(frame[1].note)
                /\ SpacesDecoded(LinkTarget(Link)) = frame[1].note.filePath

(***************************************************************************)
(* SpecRecords: the PersonInfo records that getPersonInfo, getAllPeople    *)
(* and searchPeople produce, with the people folder at its default path    *)
(* and at another path.                                                    *)
(***************************************************************************)
ApplyGetPersonInfo(p, personName) ==
    /\ pc[p] = "idle"
    /\ LET f0 == [IdleFrame EXCEPT !.op = "getPersonInfo", !.personName = personName]
           info == getPersonInfo(folders, vault, personName, settings, now)
       IN  Set(p, ReturnValue([pc |-> "idle", f |-> f0, log |-> <<>>],
                              IF info.found THEN <<info>> ELSE <<>>))
    /\ UNCHANGED <<selector, settings, folders, vault, activeFile, now, calls, tocHistory>>

ApplyGetAllPeople(p) ==
    /\ pc[p] = "idle"
    /\ \E allPeople \in Orders(getAllPeople(folders, vault, settings, now)) :
           Set(p, ReturnValue([pc |-> "idle",
                               f |-> [IdleFrame EXCEPT !.op = "getAllPeople"],
                               log |-> <<>>],
                              allPeople))
    /\ UNCHANGED <<selector, settings, folders, vault, activeFile, now, calls, tocHistory>>

InitRecords ==
    /\ settings \in {DefaultSettings, TeamSettings}
    /\ folders \in {{settings.peopleDirectoryPath,
                     settings.peopleDirectoryPath \o Slash \o <<"a">>},
                    {settings.peopleDirectoryPath,
                     settings.peopleDirectoryPath \o Slash \o <<"a">>,
                     settings.peopleDirectoryPath \o Slash \o NameAB}}
    /\ vault = <<>>
    /\ activeFile = NoFile
    /\ now = Instant(1)
    /\ InitControl

\* one application in a behaviour
NextRecords ==
    /\ pc[1] = "idle"
    /\ \/ \E personName \in Strings(QueryChars, MaxLen) : ApplyGetPersonInfo(1, personName)
       \/ ApplyGetAllPeople(1)
       \/ \E allPeople \in Orders(getAllPeople(folders, vault, settings, now)),
             query \in Strings(ScoreChars, MaxLen) :
               ApplySearchPeople(1, allPeople, query)

SpecRecords == InitRecords /\ [][NextRecords]_vars

\* the PersonInfo records of a finished call
ProducedRecords ==
    IF pc[1] # "done" THEN {}
    ELSE IF frame[1].op \in {"getPersonInfo", "getAllPeople"}
         THEN {frame[1].result.value[i] : i \in 1..Len(frame[1].result.value)}
    ELSE IF frame[1].op = "searchPeople"
         THEN {frame[1].result.value[i].person : i \in 1..Len(frame[1].result.value)}
    ELSE {}

\* C26: every PersonInfo produced by getPersonInfo, by getAllPeople, and as
\* the new-person record of searchPeople, has directoryPath = peopleRoot + "/"
\* + normalizedName, for every configured people folder.
C26_DirectoryPathUnderPeopleRoot ==
    \A person \in ProducedRecords :
        person.directoryPath = settings.peopleDirectoryPath \o <<"/">> \o person.normalizedName

\* the creation instant at the precision of the configured timestamp format
Truncated(t, s) ==
    IF s.timestampFormat = "iso-with-seconds" THEN t ELSE t - getSeconds(t)

\* the notes getPersonInfo listed for the regeneration in progress or finished
ListedNotes ==
    IF frame[1].op = "regenerateTableOfContents" /\ ~frame[1].supplied
    THEN frame[1].notes ELSE <<>>

\* the note is the one generateFileName names for the person at instant t
NamedAt(note, t) == note.filePath = NoteFilePath(NameAB, t, settings)

\* C27: for a note file named by generateFileName under either timestamp
\* format, listing the person's notes gives the note the timestamp of its file
\* name (the creation instant truncated to the configured precision), not the
\* file's modification time, so the newest-first order of the listing is the
\* order of the creation times.
C27_ListingRecoversTimestamp ==
    /\ \A i \in 1..Len(ListedNotes), t \in Instants :
          NamedAt(ListedNotes[i], t)
              => ListedNotes[i].timestamp = Truncated(t, settings)
    /\ \A i, j \in 1..Len(ListedNotes), t, u \in Instants :
          (i < j /\ NamedAt(ListedNotes[i], t) /\ NamedAt(ListedNotes[j], u))
              => Truncated(t, settings) >= Truncated(u, settings)

(***************************************************************************)
(* SpecPaths: two index operations, one after the other, for person names  *)
(* that normalize to the same name or to different names.                  *)
(***************************************************************************)
\* 'A B', ' A B', 'A  B', and 'A-B', 'A/B', '-A-B'
IndexNames ==
    {NameAB, <<" ", "A", " ", "B">>, <<"A", " ", " ", "B">>,
     <<"A", "-", "B">>, <<"A", "/", "B">>, <<"-", "A", "-", "B">>}

\* the second operation begins when the first has returned
Turn(p) == pc[p] = "idle" /\ (p = 2 => pc[1] = "done")

InitPaths ==
    /\ settings \in {DefaultSettings, OtherSettings}
    /\ folders = {PeopleDirectoryPath, PersonAB,
                  PeopleDirectoryPath \o Slash \o <<"A", "-", "B">>}
    /\ vault = <<>>
    /\ activeFile = NoFile
    /\ now = Instant(1)
    /\ InitControl

NextPaths ==
    \E p \in Procs :
        \/ \E personName \in IndexNames :
              Turn(p) /\ StartUpdateTableOfContents(p, NoteOf(personName, now, settings))
        \/ \E personName \in IndexNames :
              Turn(p) /\ StartRegenerate(p, personName,
                                         getPersonInfo(folders, vault, personName, settings, now),
                                         FALSE)
        \/ TocCreate(p)
        \/ TocRead(p)
        \/ TocModify(p)
        \/ RegenCreate(p)
        \/ RegenModify(p)

SpecPaths == InitPaths /\ [][NextPaths]_vars

\* the flow has computed the path of an index document
AddressesIndex(p) ==
    /\ frame[p].op \in {"updateTableOfContents", "regenerateTableOfContents"}
    /\ frame[p].tocPath # <<>>

\* C28: all index operations for one person directory address one index
\* document: for any two person names with the same normalized name,
\* updateTableOfContents and regenerateTableOfContents compute the same index
\* path, and that path is a direct child of the person directory.
C28_OneIndexPerPerson ==
    \A p, q \in Procs :
        (/\ AddressesIndex(p)
         /\ AddressesIndex(q)
         /\ normalizePersonName(frame[p].personName) = normalizePersonName(frame[q].personName))
        => /\ frame[p].tocPath = frame[q].tocPath
           /\ ParentOf(frame[p].tocPath) = PersonPath(frame[p].personName, settings)

\* the createNote call of flow p has computed the path of its note
NamesNote(p) ==
    /\ frame[p].op = "createNote"
    /\ Trim(frame[p].personName) # <<>>
    /\ frame[p].note # NoNote

\* C29: every createNote call with a non-empty name creates a new, distinct
\* note file: for any two creations for the same normalized person name, also
\* when their timestamps fall in the same second (or the same minute without
\* seconds), the computed file paths differ, so the later creation neither
\* overwrites the earlier note nor fails on it.
C29_DistinctNoteFiles ==
    \A p, q \in Procs :
        (/\ p # q
         /\ NamesNote(p)
         /\ NamesNote(q)
         /\ normalizePersonName(frame[p].personName) = normalizePersonName(frame[q].personName))
        => /\ frame[p].note.filePath # frame[q].note.filePath
           /\ ~(/\ EndsThrowing(oplog[q], "vault.create(note)")
                /\ FileExists(vault, frame[q].note.filePath))

====
